---- MODULE Spec2Model ----
(***************************************************************************)
(* Model of the real-time conversation engine of the UniVibe client:       *)
(* the reply codec (formatReplyContent / parseReply), the direct chat      *)
(* session (ChatPage), the college community chat (CollegeChat) and the    *)
(* typing presence of a conversation view.                                 *)
(*                                                                         *)
(* Text is modelled as a sequence of tokens.  A token is one character     *)
(* ("a", the double quote, the backslash, a digit, a JSON structural       *)
(* character) or one of the words the code treats as a unit: the two       *)
(* delimiters "[REPLY::" and "::REPLY]", the JSON literal null and the     *)
(* property names of a ReplyInfo.                                          *)
(***************************************************************************)
EXTENDS Integers, Sequences, FiniteSets, TLC

VARIABLES
    \* ---- reply codec: the life of one message's content
    content,            \* Message.content as stored
    lastOp,             \* the operation that wrote it, with its arguments
    rendered,           \* parseReply(content) as ChatMessage renders it
    \* ---- direct chat (ChatPage)
    store,              \* table messages: id -> row (rows of this conversation)
    nextId,             \* next id the server assigns
    channel,            \* realtime events of the conversation's topic, FIFO
    messages,           \* ChatPage state: the visible list
    loading,            \* ChatPage state
    fetchPc,            \* fetchChatData: "profile", "select", "done", "failed"
    fetchData,          \* rows the messages select returned, in flight
    sendPc,             \* handleSendMessage: "idle", "insert", "notify"
    insertedMessage,    \* the row the insert returned, in flight to the sender
    hidden,             \* document.hidden
    seenRequests,       \* markSeen updates issued and not yet applied
    lastMarked,         \* rows changed by the last markSeen update that changed any
    seenBy,             \* the handler that issued the last markSeen update
    \* ---- college community chat (CollegeChat)
    cStore,             \* table college_group_chats: rows of this college
    cNextId,            \* next id the server assigns
    cChannel,           \* realtime events of the college topic, FIFO
    cPending,           \* INSERT handlers between their select and its result
    cMessages,          \* CollegeChat state: the visible list
    cLoading,           \* CollegeChat state
    cFetches,           \* fetchMessages calls in flight
    cDeleting,          \* ids whose delete request is in flight
    \* ---- typing presence of a conversation view (ChatPage, GroupChatPage)
    kind,               \* "direct" (ChatPage) or "group" (GroupChatPage)
    viewOpen,           \* the conversation view is mounted
    typingChannelRef,   \* typingChannelRef / channelRef holds the channel
    joined,             \* the channel of the view is SUBSCRIBED
    presence,           \* is_typing as last tracked on the view's channel
    publishedBy,        \* the code that tracked it
    typingTimeoutRef,   \* the idle timer's handle, 0 for null
    timerLeft,          \* ms until the pending idle timer is due
    newMessage,         \* the draft
    editingMessage,     \* a message is being edited
    typingSendPc,       \* handleSendMessage: "idle", "track", "insert", "update"
    sentContent,        \* the content handleSendMessage took from the draft
    keystrokes,         \* input changes so far
    replyingTo,         \* view state: whether a message is being replied to
    fileToSend,         \* ChatPage state: whether a file is attached
    sendFailed,         \* whether the last send ended with the failure alert
    submits,            \* calls of handleSendMessage so far
    \* ---- new-message toast and unread badge (Navbar)
    openChat,           \* the conversation of the route shown, or "none"
    inbound,            \* table messages: rows addressed to the user
    inboundNextId,      \* next id the server assigns
    incomingMessages,   \* INSERT events of incomingMessagesChannel, FIFO
    messagesUpdate,     \* UPDATE events of messagesUpdateChannel not yet handled
    senderProfiles,     \* INSERT handlers awaiting the sender's profile
    toast,              \* Navbar state: the toast shown, or NoToast
    toastTimers,        \* pending setTimeout(() => setToast(null), 5000)
    unreadMessageCount, \* Navbar state: the badge
    countFetches,       \* fetchUnreadMessageCount calls in flight
    \* ---- inbox (ChatListPage)
    allMessages,        \* table messages: the user's rows, [id, other]
    allNextId,          \* next id the server assigns
    listChannel,        \* changes of the user's rows, in commit order
    conversations,      \* ChatListPage state: the inbox entries
    conversationsRef,   \* conversationsRef.current
    listLoading,        \* ChatListPage state: loading
    listFetchPc,        \* fetchConversations: "messages", "profiles", "done"
    listFetchData,      \* the entries fetchConversations has built so far
    profileFetches,     \* INSERT handlers awaiting the other user's profile
    \* ---- study group (GroupChatPage)
    groupType,          \* study_groups.type of the group: "public", "private"
    memberIds,          \* whether study_group_members holds the user
    group,              \* GroupChatPage state: "null" or the loaded group's type
    isMember,           \* GroupChatPage state
    members,            \* GroupChatPage state: the users whose profile it holds
    gLoading,           \* GroupChatPage state: loading
    gFetchPc,           \* fetchData: "group", "members", "profiles",
                        \* "messages", "set", "done"
    gFetchData,         \* rows the messages select returned
    historyFetched,     \* whether fetchData has selected the messages
    gStatus,            \* the group channel: "none", "joining", "SUBSCRIBED",
                        \* "CHANNEL_ERROR"
    gStore,             \* table study_group_messages, rows of the group
    gNextId,            \* next id the server assigns
    gChannel,           \* changes delivered to the channel, not yet handled
    gMessages,          \* GroupChatPage state: messages
    \* ---- typing indicator of a study group (GroupChatPage)
    profileName,        \* profiles.name of the viewer and of each member
    presenceState,      \* what each user tracks on the channel: "absent",
                        \* "false", "true" (is_typing)
    typing,             \* GroupChatPage state: typing, a set of names
    \* ---- the UPDATE / DELETE handlers of a visible list
    hKind,              \* the page of the list: "direct" or "group"
    hList,              \* the page's messages state
    hEvent,             \* the event handled last
    \* ---- ChatPage across a change of the route's recipient
    recipientId,        \* useParams: the recipient of the open conversation
    directRows,         \* table messages: the user's rows, [id, other]
    chatFetches,        \* fetchChatData calls in flight: [recipient, pc, data]
    directMessages,     \* ChatPage state: messages
    historyResolved,    \* whether a fetch for recipientId has set the list
    switches            \* changes of recipientId so far

codecVars  == << content, lastOp, rendered >>
chatVars   == << store, nextId, channel, messages, loading, fetchPc, fetchData,
                 sendPc, insertedMessage, hidden, seenRequests, lastMarked,
                 seenBy >>
collegeVars == << cStore, cNextId, cChannel, cPending, cMessages, cLoading,
                  cFetches, cDeleting >>
typingVars == << kind, viewOpen, typingChannelRef, joined, presence, publishedBy,
                 typingTimeoutRef, timerLeft, newMessage, editingMessage,
                 typingSendPc, sentContent, keystrokes, replyingTo,
                 fileToSend, sendFailed, submits >>
navbarVars == << openChat, inbound, inboundNextId, incomingMessages,
                 messagesUpdate, senderProfiles, toast, toastTimers,
                 unreadMessageCount, countFetches >>
inboxVars == << allMessages, allNextId, listChannel, conversations,
                conversationsRef, listLoading, listFetchPc, listFetchData,
                profileFetches >>
groupVars == << groupType, memberIds, group, isMember, members, gLoading,
                gFetchPc, gFetchData, historyFetched, gStatus, gStore, gNextId,
                gChannel, gMessages >>
indicatorVars == << profileName, presenceState, typing >>
handlerVars == << hKind, hList, hEvent >>
switchVars == << recipientId, directRows, chatFetches, directMessages,
                 historyResolved, switches >>
vars == << codecVars, chatVars, collegeVars, typingVars, navbarVars, inboxVars,
           groupVars, indicatorVars, handlerVars, switchVars >>

\* What the handlers of one component leave alone.
notCodec == << chatVars, collegeVars, typingVars, navbarVars, inboxVars,
    groupVars, indicatorVars, handlerVars, switchVars >>
notChat == << codecVars, collegeVars, typingVars, navbarVars, inboxVars,
    groupVars, indicatorVars, handlerVars, switchVars >>
notCollege == << codecVars, chatVars, typingVars, navbarVars, inboxVars,
    groupVars, indicatorVars, handlerVars, switchVars >>
notTyping == << codecVars, chatVars, collegeVars, navbarVars, inboxVars,
    groupVars, indicatorVars, handlerVars, switchVars >>
notNavbar == << codecVars, chatVars, collegeVars, typingVars, inboxVars,
    groupVars, indicatorVars, handlerVars, switchVars >>
notInbox == << codecVars, chatVars, collegeVars, typingVars, navbarVars,
    groupVars, indicatorVars, handlerVars, switchVars >>
notGroup == << codecVars, chatVars, collegeVars, typingVars, navbarVars,
    inboxVars, indicatorVars, handlerVars, switchVars >>
notIndicator == << codecVars, chatVars, collegeVars, typingVars, navbarVars,
    inboxVars, groupVars, handlerVars, switchVars >>
notHandler == << codecVars, chatVars, collegeVars, typingVars, navbarVars,
    inboxVars, groupVars, indicatorVars, switchVars >>
notSwitch == << codecVars, chatVars, collegeVars, typingVars, navbarVars,
    inboxVars, groupVars, indicatorVars, handlerVars >>

Min(S) == CHOOSE x \in S : \A y \in S : x <= y

(***************************************************************************)
(* Bounds                                                                  *)
(***************************************************************************)
MaxRaw == 4         \* length of a content the user typed verbatim
MaxBody == 1        \* length of a reply body, a quoted snippet, an edited body
MaxMsgs == 2        \* messages the conversation ever holds
MaxQueue == 2       \* realtime events delivered late at once
MaxSeenRequests == 2 \* markSeen updates in flight at once
MaxFetches == 1     \* fetchMessages calls in flight at once
MaxDraft == 1       \* length of the draft
MaxKeystrokes == 2  \* input changes of one session
MaxSubmits == 2     \* calls of handleSendMessage of one session
MaxSwitches == 2    \* changes of the recipient of one ChatPage
MaxCounts == 2      \* fetchUnreadMessageCount calls in flight at once

Strings(alphabet, n) == UNION { [1..k -> alphabet] : k \in 0..n }

(***************************************************************************)
(* Reply codec                                                             *)
(***************************************************************************)
REPLY_PREFIX == "[REPLY::"
REPLY_SUFFIX == "::REPLY]"
Quote == "\""
Backslash == "\\"

\* JavaScript values as JSON.parse yields and JSON.stringify takes them.
JNull == [t |-> "null"]
JNum(n) == [t |-> "num", n |-> n]
JStr(s) == [t |-> "str", s |-> s]
JObj(m) == [t |-> "obj", m |-> m]

Digits == << "0", "1", "2", "3", "4", "5", "6", "7", "8", "9" >>
IsDigit(tok) == \E k \in 1..10 : Digits[k] = tok
DigitValue(tok) == (CHOOSE k \in 1..10 : Digits[k] = tok) - 1

RECURSIVE EscapeString(_)
EscapeString(s) ==
    IF s = << >> THEN << >>
    ELSE (IF Head(s) \in {Quote, Backslash} THEN << Backslash, Head(s) >>
          ELSE << Head(s) >>) \o EscapeString(Tail(s))

QuoteString(s) == << Quote >> \o EscapeString(s) \o << Quote >>

RECURSIVE NumberToString(_)
NumberToString(n) ==
    IF n < 10 THEN << Digits[n + 1] >>
    ELSE NumberToString(n \div 10) \o << Digits[(n % 10) + 1] >>

RECURSIVE JSONstringify(_)
RECURSIVE StringifyMembers(_)
JSONstringify(v) ==
    CASE v.t = "null" -> << "null" >>
      [] v.t = "num"  -> NumberToString(v.n)
      [] v.t = "str"  -> QuoteString(v.s)
      [] v.t = "obj"  -> << "{" >> \o StringifyMembers(v.m) \o << "}" >>

StringifyMembers(m) ==
    IF m = << >> THEN << >>
    ELSE QuoteString(m[1].k) \o << ":" >> \o JSONstringify(m[1].v)
         \o (IF Len(m) > 1 THEN << "," >> ELSE << >>)
         \o StringifyMembers(Tail(m))

ParseFail == [ok |-> FALSE]
ParseOk(v, next) == [ok |-> TRUE, v |-> v, next |-> next]

\* The characters of a JSON string from position j on, up to its closing quote.
RECURSIVE ParseStringFrom(_, _, _)
ParseStringFrom(toks, j, acc) ==
    IF j > Len(toks) THEN ParseFail
    ELSE IF toks[j] = Quote THEN ParseOk(JStr(acc), j + 1)
    ELSE IF toks[j] = Backslash
         THEN IF j + 1 <= Len(toks) /\ toks[j + 1] \in {Quote, Backslash}
              THEN ParseStringFrom(toks, j + 2, Append(acc, toks[j + 1]))
              ELSE ParseFail
    ELSE ParseStringFrom(toks, j + 1, Append(acc, toks[j]))

RECURSIVE ParseDigits(_, _, _)
ParseDigits(toks, j, acc) ==
    IF j <= Len(toks) /\ IsDigit(toks[j])
    THEN ParseDigits(toks, j + 1, acc * 10 + DigitValue(toks[j]))
    ELSE ParseOk(JNum(acc), j)

\* A property set twice keeps its first place and takes the last value.
SetMember(m, k, v) ==
    IF \E i \in 1..Len(m) : m[i].k = k
    THEN [i \in 1..Len(m) |-> IF m[i].k = k THEN [k |-> k, v |-> v] ELSE m[i]]
    ELSE Append(m, [k |-> k, v |-> v])

RECURSIVE ParseValue(_, _)
RECURSIVE ParseMembers(_, _, _)
ParseValue(toks, i) ==
    IF i > Len(toks) THEN ParseFail
    ELSE CASE toks[i] = "null" -> ParseOk(JNull, i + 1)
           [] toks[i] = Quote  -> ParseStringFrom(toks, i + 1, << >>)
           [] toks[i] = "0"    -> ParseOk(JNum(0), i + 1)
           [] IsDigit(toks[i]) /\ toks[i] # "0" -> ParseDigits(toks, i, 0)
           [] toks[i] = "{"    ->
                IF i + 1 <= Len(toks) /\ toks[i + 1] = "}"
                THEN ParseOk(JObj(<< >>), i + 2)
                ELSE ParseMembers(toks, i + 1, << >>)
           [] OTHER -> ParseFail

ParseMembers(toks, i, acc) ==
    IF i > Len(toks) \/ toks[i] # Quote THEN ParseFail
    ELSE LET key == ParseStringFrom(toks, i + 1, << >>) IN
         IF ~key.ok THEN ParseFail
         ELSE IF key.next > Len(toks) \/ toks[key.next] # ":" THEN ParseFail
         ELSE LET val == ParseValue(toks, key.next + 1) IN
              IF ~val.ok THEN ParseFail
              ELSE IF val.next > Len(toks) THEN ParseFail
              ELSE IF toks[val.next] = "}"
                   THEN ParseOk(JObj(SetMember(acc, key.v.s, val.v)), val.next + 1)
              ELSE IF toks[val.next] = ","
                   THEN ParseMembers(toks, val.next + 1, SetMember(acc, key.v.s, val.v))
              ELSE ParseFail

\* JSON.parse: ok = FALSE stands for the SyntaxError it throws.
JSONparse(toks) ==
    LET r == ParseValue(toks, 1) IN
    IF r.ok /\ r.next = Len(toks) + 1 THEN [ok |-> TRUE, v |-> r.v]
    ELSE [ok |-> FALSE]

\* content.match(/^\[REPLY::(.*?)::REPLY\](.*)$/s): the lazy first group ends
\* at the first "::REPLY]" after the prefix.
REPLY_REGEX(text) ==
    LET ends == { j \in 2..Len(text) : text[j] = REPLY_SUFFIX } IN
    IF text # << >> /\ text[1] = REPLY_PREFIX /\ ends # {}
    THEN [matched |-> TRUE,
          g1 |-> SubSeq(text, 2, Min(ends) - 1),
          g2 |-> SubSeq(text, Min(ends) + 1, Len(text))]
    ELSE [matched |-> FALSE]

formatReplyContent(replyInfo, mainContent) ==
    << REPLY_PREFIX >> \o JSONstringify(replyInfo) \o << REPLY_SUFFIX >> \o mainContent

parseReply(text) ==
    IF text = << >> THEN [replyInfo |-> JNull, mainContent |-> << >>]
    ELSE LET match == REPLY_REGEX(text) IN
         IF ~match.matched THEN [replyInfo |-> JNull, mainContent |-> text]
         ELSE LET parsed == JSONparse(match.g1) IN
              IF parsed.ok
              THEN [replyInfo |-> parsed.v, mainContent |-> match.g2]
              ELSE [replyInfo |-> JNull, mainContent |-> text]

\* The ReplyInfo the reply button builds.
ReplyInfo(id, snippet, senderId, senderName) ==
    JObj(<< [k |-> << "id" >>, v |-> JNum(id)],
            [k |-> << "content" >>, v |-> JStr(snippet)],
            [k |-> << "senderId" >>, v |-> JStr(senderId)],
            [k |-> << "senderName" >>, v |-> JStr(senderName)] >>)

\* JavaScript truthiness, as `if (replyInfo)` tests it.
Truthy(v) ==
    CASE v.t = "null" -> FALSE
      [] v.t = "num"  -> v.n # 0
      [] v.t = "str"  -> v.s # << >>
      [] OTHER -> TRUE

\* An edit that writes the new text alone, whatever the message carried.
FinalContentDropsEnvelope(editingContent, newContent) == newContent

\* handleUpdateMessage: the content written for an edit of editingMessage.
FinalContent(editingContent, newContent) ==
    LET replyInfo == parseReply(editingContent).replyInfo IN
    IF Truthy(replyInfo) THEN formatReplyContent(replyInfo, newContent)
    ELSE newContent

RawAlphabet == { REPLY_PREFIX, REPLY_SUFFIX, "a", "1" }
BodyAlphabet == { REPLY_PREFIX, REPLY_SUFFIX, "a", Quote }
RawTexts == Strings(RawAlphabet, MaxRaw)
Bodies == Strings(BodyAlphabet, MaxBody)
SenderNames == { << "You" >>, << "a", REPLY_SUFFIX >> }
ReplyInfos == { ReplyInfo(1, s, << "u" >>, n) : s \in Bodies, n \in SenderNames }

CodecInit ==
    /\ content = << >>
    /\ lastOp = [op |-> "none"]
    /\ rendered = parseReply(<< >>)

\* handleSendMessage without replyingTo: the content is the text as typed.
SendPlain(text) ==
    /\ lastOp.op = "none"
    /\ content' = text
    /\ lastOp' = [op |-> "plain", text |-> text]
    /\ rendered' = parseReply(content')

\* handleSendMessage with replyingTo set.
SendReply(replyInfo, body) ==
    /\ lastOp.op = "none"
    /\ content' = formatReplyContent(replyInfo, body)
    /\ lastOp' = [op |-> "reply", replyInfo |-> replyInfo, mainContent |-> body]
    /\ rendered' = parseReply(content')

\* The edit button, then handleUpdateMessage on the message as listed.
EditMessage(body) ==
    /\ lastOp.op # "none"
    /\ content' = FinalContent(content, body)
    /\ lastOp' = [op |-> "edit", old |-> content, newContent |-> body]
    /\ rendered' = parseReply(content')

CodecSendPlain == \E text \in RawTexts : SendPlain(text)
CodecSendReply == \E replyInfo \in ReplyInfos, body \in Bodies : SendReply(replyInfo, body)
CodecEdit == \E body \in Bodies : EditMessage(body)

CodecNext ==
    \/ CodecSendPlain /\ UNCHANGED notCodec
    \/ CodecSendReply /\ UNCHANGED notCodec
    \/ CodecEdit /\ UNCHANGED notCodec

(***************************************************************************)
(* Direct chat: ChatPage, opened by Me on the conversation with Peer.      *)
(* A row is [id, sender, is_seen]; its receiver is the other party and its *)
(* content is not followed here.  The server stamps created_at from a      *)
(* clock that advances with every insert, so created_at orders rows as id  *)
(* does.                                                                   *)
(***************************************************************************)
Me == "me"
Peer == "peer"

created_at(m) == m.id

Row(id, sender) == [id |-> id, sender |-> sender, is_seen |-> FALSE]

Ids(list) == { list[i].id : i \in DOMAIN list }
StoreIds == { r.id : r \in store }

\* .order('created_at', { ascending: true })
RECURSIVE OrderByCreatedAt(_)
OrderByCreatedAt(rows) ==
    IF rows = {} THEN << >>
    ELSE LET first == CHOOSE r \in rows : \A q \in rows : created_at(r) <= created_at(q)
         IN << first >> \o OrderByCreatedAt(rows \ {first})

RECURSIVE Filter(_, _)
Filter(list, id) ==
    IF list = << >> THEN << >>
    ELSE (IF Head(list).id # id THEN << Head(list) >> ELSE << >>) \o Filter(Tail(list), id)

\* A markSeen call that does not look at document.hidden.
markMessagesAsSeenAlways(isHidden, requests) == requests + 1

\* markMessagesAsSeen: the update request is issued unless the document is
\* hidden; the result is the number of requests in flight.
markMessagesAsSeen(isHidden, requests) ==
    IF isHidden THEN requests ELSE requests + 1

\* A markSeen update that matches one unseen row of the counterpart only.
UnseenFirstOnly(rows) ==
    LET all == { r \in rows : r.sender = Peer /\ ~r.is_seen }
    IN { r \in all : \A q \in all : r.id <= q.id }

\* A markSeen update without the is_seen = false filter: it matches (and
\* reports as updated) every row of the counterpart, seen or not.
UnseenOrSeen(rows) == { r \in rows : r.sender = Peer }

\* The rows a markSeen update matches.
Unseen(rows) == { r \in rows : r.sender = Peer /\ ~r.is_seen }

\* The realtime INSERT handler's state updater.
OnInsert(list, m) ==
    IF \E i \in DOMAIN list : list[i].id = m.id THEN list ELSE Append(list, m)

\* An UPDATE handler that puts the changed row at the end of the list.
OnUpdateMovesToEnd(list, m) ==
    IF m.id \in Ids(list) THEN Append(Filter(list, m.id), m) ELSE list

\* The realtime UPDATE handler's state updater.
OnUpdate(list, m) ==
    [i \in DOMAIN list |-> IF list[i].id = m.id THEN m ELSE list[i]]

\* The realtime DELETE handler's state updater.
OnDelete(list, id) == Filter(list, id)

\* The sender's own append of the row the insert returned.
OnInserted(list, m) == Append(list, m)

ChatInit ==
    /\ \E k \in 0..MaxMsgs :
          /\ store = { Row(id, Peer) : id \in 1..k }
          /\ nextId = k + 1
    /\ hidden \in BOOLEAN
    /\ channel = << >>
    /\ messages = << >>
    /\ loading = TRUE
    /\ fetchPc = "profile"
    /\ fetchData = << >>
    /\ sendPc = "idle"
    /\ insertedMessage = << >>
    /\ seenRequests = markMessagesAsSeen(hidden, 0)
    /\ seenBy = IF seenRequests > 0 THEN "mount" ELSE "none"
    /\ lastMarked = 0

\* fetchChatData: the profile arrived and the messages select runs.
FetchSelect ==
    /\ fetchPc = "profile"
    /\ fetchPc' = "select"
    /\ fetchData' = OrderByCreatedAt(store)
    /\ UNCHANGED << store, nextId, channel, messages, loading, sendPc,
                    insertedMessage, hidden, seenRequests, lastMarked, seenBy >>

\* fetchChatData: the select resolved; setMessages(messagesData), and the
\* effect on [messages] calls markMessagesAsSeen.
FetchResolve ==
    /\ fetchPc = "select"
    /\ seenRequests < MaxSeenRequests
    /\ fetchPc' = "done"
    /\ messages' = fetchData
    /\ fetchData' = << >>
    /\ loading' = FALSE
    /\ seenRequests' = markMessagesAsSeen(hidden, seenRequests)
    /\ UNCHANGED << store, nextId, channel, sendPc, insertedMessage, hidden,
                    lastMarked >>
    /\ seenBy' = IF seenRequests' > seenRequests THEN "list" ELSE seenBy

\* fetchChatData: either request failed; the list is left as it is.
FetchFail ==
    /\ fetchPc \in {"profile", "select"}
    /\ fetchPc' = "failed"
    /\ fetchData' = << >>
    /\ loading' = FALSE
    /\ UNCHANGED << store, nextId, channel, messages, sendPc, insertedMessage,
                    hidden, seenRequests, lastMarked, seenBy >>

\* The counterpart sends a message.
PeerSend ==
    /\ nextId <= MaxMsgs
    /\ Len(channel) < MaxQueue
    /\ store' = store \cup { Row(nextId, Peer) }
    /\ channel' = Append(channel, [type |-> "INSERT", new |-> Row(nextId, Peer)])
    /\ nextId' = nextId + 1
    /\ UNCHANGED << messages, loading, fetchPc, fetchData, sendPc,
                    insertedMessage, hidden, seenRequests, lastMarked, seenBy >>

\* handleSendMessage up to the insert: the server stores the row, broadcasts
\* it, and answers the sender.
SendInsert ==
    /\ fetchPc = "done"
    /\ sendPc = "idle"
    /\ nextId <= MaxMsgs
    /\ Len(channel) < MaxQueue
    /\ store' = store \cup { Row(nextId, Me) }
    /\ channel' = Append(channel, [type |-> "INSERT", new |-> Row(nextId, Me)])
    /\ insertedMessage' = << Row(nextId, Me) >>
    /\ nextId' = nextId + 1
    /\ sendPc' = "insert"
    /\ UNCHANGED << messages, loading, fetchPc, fetchData, hidden,
                    seenRequests, lastMarked, seenBy >>

\* handleSendMessage: the insert answered; the row is appended.
SendAck ==
    /\ sendPc = "insert"
    /\ seenRequests < MaxSeenRequests
    /\ messages' = OnInserted(messages, insertedMessage[1])
    /\ insertedMessage' = << >>
    /\ sendPc' = "notify"
    /\ seenRequests' = markMessagesAsSeen(hidden, seenRequests)
    /\ UNCHANGED << store, nextId, channel, loading, fetchPc, fetchData,
                    hidden, lastMarked >>
    /\ seenBy' = IF seenRequests' > seenRequests THEN "list" ELSE seenBy

\* handleSendMessage: the notification insert answered.
SendDone ==
    /\ sendPc = "notify"
    /\ sendPc' = "idle"
    /\ UNCHANGED << store, nextId, channel, messages, loading, fetchPc,
                    fetchData, insertedMessage, hidden, seenRequests,
                    lastMarked, seenBy >>

\* The realtime handler takes the next event of the topic.
DeliverInsert ==
    /\ channel # << >>
    /\ Head(channel).type = "INSERT"
    /\ LET m == Head(channel).new
           appended == OnInsert(messages, m) # messages
           inUpdater == IF appended /\ m.sender = Peer
                        THEN markMessagesAsSeen(hidden, seenRequests)
                        ELSE seenRequests
       IN /\ messages' = OnInsert(messages, m)
          /\ seenRequests' = IF appended
                             THEN markMessagesAsSeen(hidden, inUpdater)
                             ELSE seenRequests
          /\ seenRequests' <= MaxSeenRequests
          /\ seenBy' = IF inUpdater > seenRequests THEN "insert"
                       ELSE IF seenRequests' > seenRequests THEN "list"
                       ELSE seenBy
    /\ channel' = Tail(channel)
    /\ UNCHANGED << store, nextId, loading, fetchPc, fetchData, sendPc,
                    insertedMessage, hidden, lastMarked >>

DeliverUpdate ==
    /\ channel # << >>
    /\ Head(channel).type = "UPDATE"
    /\ seenRequests < MaxSeenRequests
    /\ messages' = OnUpdate(messages, Head(channel).new)
    /\ seenRequests' = markMessagesAsSeen(hidden, seenRequests)
    /\ channel' = Tail(channel)
    /\ UNCHANGED << store, nextId, loading, fetchPc, fetchData, sendPc,
                    insertedMessage, hidden, lastMarked >>
    /\ seenBy' = IF seenRequests' > seenRequests THEN "list" ELSE seenBy

DeliverDelete ==
    /\ channel # << >>
    /\ Head(channel).type = "DELETE"
    /\ seenRequests < MaxSeenRequests
    /\ messages' = OnDelete(messages, Head(channel).old)
    /\ seenRequests' = markMessagesAsSeen(hidden, seenRequests)
    /\ channel' = Tail(channel)
    /\ UNCHANGED << store, nextId, loading, fetchPc, fetchData, sendPc,
                    insertedMessage, hidden, lastMarked >>
    /\ seenBy' = IF seenRequests' > seenRequests THEN "list" ELSE seenBy

\* visibilitychange: handleVisibilityChange calls markMessagesAsSeen when the
\* document is shown.
VisibilityChange ==
    /\ seenRequests < MaxSeenRequests
    /\ hidden' = ~hidden
    /\ seenRequests' = IF ~hidden' THEN markMessagesAsSeen(hidden', seenRequests)
                       ELSE seenRequests
    /\ UNCHANGED << store, nextId, channel, messages, loading, fetchPc,
                    fetchData, sendPc, insertedMessage, lastMarked >>
    /\ seenBy' = IF seenRequests' > seenRequests THEN "visible" ELSE seenBy

\* The server applies one markSeen update: every matching row at once, one
\* UPDATE event per row changed.
MarkSeenApply ==
    /\ seenRequests > 0
    /\ Len(channel) + Cardinality(Unseen(store)) <= MaxQueue
    /\ seenRequests' = seenRequests - 1
    /\ LET hit == Unseen(store)
           now == { [r EXCEPT !.is_seen = TRUE] : r \in hit }
       IN /\ store' = (store \ hit) \cup now
          /\ channel' = channel \o
                [i \in 1..Cardinality(now) |->
                    [type |-> "UPDATE", new |-> OrderByCreatedAt(now)[i]]]
          /\ lastMarked' = IF hit = {} THEN lastMarked ELSE Cardinality(hit)
    /\ UNCHANGED << nextId, messages, loading, fetchPc, fetchData, sendPc,
                    insertedMessage, hidden, seenBy >>

\* A sender's edit reaches the server (handleUpdateMessage's update): the
\* UPDATE event carries the row as it is then.
EditApply ==
    \E r \in store :
        /\ Len(channel) < MaxQueue
        /\ channel' = Append(channel, [type |-> "UPDATE", new |-> r])
        /\ UNCHANGED << store, nextId, messages, loading, fetchPc, fetchData,
                        sendPc, insertedMessage, hidden, seenRequests,
                        lastMarked, seenBy >>

\* A sender's delete reaches the server (handleDeleteMessage).
DeleteApply ==
    \E r \in store :
        /\ Len(channel) < MaxQueue
        /\ store' = store \ {r}
        /\ channel' = Append(channel, [type |-> "DELETE", old |-> r.id])
        /\ UNCHANGED << nextId, messages, loading, fetchPc, fetchData, sendPc,
                        insertedMessage, hidden, seenRequests, lastMarked, seenBy >>

ChatNext ==
    \/ FetchSelect /\ UNCHANGED notChat
    \/ FetchResolve /\ UNCHANGED notChat
    \/ FetchFail /\ UNCHANGED notChat
    \/ PeerSend /\ UNCHANGED notChat
    \/ SendInsert /\ UNCHANGED notChat
    \/ SendAck /\ UNCHANGED notChat
    \/ SendDone /\ UNCHANGED notChat
    \/ DeliverInsert /\ UNCHANGED notChat
    \/ DeliverUpdate /\ UNCHANGED notChat
    \/ DeliverDelete /\ UNCHANGED notChat
    \/ VisibilityChange /\ UNCHANGED notChat
    \/ MarkSeenApply /\ UNCHANGED notChat
    \/ EditApply /\ UNCHANGED notChat
    \/ DeleteApply /\ UNCHANGED notChat

(***************************************************************************)
(* College community chat (CollegeChat).  The history select is limited to *)
(* 100 rows; the conversations of the model stay below that.               *)
(***************************************************************************)
CollegeRow(id, user) == [id |-> id, user_id |-> user]

RemoveAt(list, i) == SubSeq(list, 1, i - 1) \o SubSeq(list, i + 1, Len(list))

CollegeInit ==
    /\ \E k \in 0..MaxMsgs : \E who \in [1..k -> {Me, Peer}] :
          /\ cStore = { CollegeRow(i, who[i]) : i \in 1..k }
          /\ cNextId = k + 1
    /\ cChannel = << >>
    /\ cPending = {}
    /\ cMessages = << >>
    /\ cLoading = TRUE
    /\ cFetches = << [pc |-> "select", data |-> << >>, revert |-> 0] >>
    /\ cDeleting = {}

\* fetchMessages: the server evaluates the select.  A fetch records which
\* failed delete it reverts (0: the fetch of the mount effect).
CFetchSelect ==
    \E i \in DOMAIN cFetches :
        /\ cFetches[i].pc = "select"
        /\ cFetches' = [cFetches EXCEPT ![i] =
                           [pc |-> "resolve", data |-> OrderByCreatedAt(cStore),
                            revert |-> cFetches[i].revert]]
        /\ UNCHANGED << cStore, cNextId, cChannel, cPending, cMessages,
                        cLoading, cDeleting >>

\* fetchMessages resumes with data: the list is the rows selected.
CFetchResolve ==
    \E i \in DOMAIN cFetches :
        /\ cFetches[i].pc = "resolve"
        /\ cMessages' = cFetches[i].data
        /\ cLoading' = FALSE
        /\ cFetches' = RemoveAt(cFetches, i)
        /\ UNCHANGED << cStore, cNextId, cChannel, cPending, cDeleting >>

\* fetchMessages resumes with an error: data is null, the list stays.
CFetchError ==
    \E i \in DOMAIN cFetches :
        /\ cFetches[i].pc = "select"
        /\ cLoading' = FALSE
        /\ cFetches' = RemoveAt(cFetches, i)
        /\ UNCHANGED << cStore, cNextId, cChannel, cPending, cMessages,
                        cDeleting >>

\* handleSendMessage of any member: the server stores the row and
\* broadcasts its INSERT.  The sender's list changes by the event only.
CSend ==
    \E user \in {Me, Peer} :
        /\ cNextId <= MaxMsgs
        /\ Len(cChannel) < MaxQueue
        /\ cStore' = cStore \cup { CollegeRow(cNextId, user) }
        /\ cNextId' = cNextId + 1
        /\ cChannel' = Append(cChannel, [type |-> "INSERT", id |-> cNextId])
        /\ UNCHANGED << cPending, cMessages, cLoading, cFetches, cDeleting >>

\* INSERT handler, up to its await: it asks for the row with its profile.
CDeliverInsert ==
    /\ cChannel # << >>
    /\ Head(cChannel).type = "INSERT"
    /\ cPending' = cPending \cup
          { [id |-> Head(cChannel).id, got |-> "wait", user_id |-> "none"] }
    /\ cChannel' = Tail(cChannel)
    /\ UNCHANGED << cStore, cNextId, cMessages, cLoading, cFetches, cDeleting >>

\* The server evaluates a handler's select ... single(): the row, or an
\* error when the row is gone.
CHandlerSelect ==
    \E p \in cPending :
        /\ p.got = "wait"
        /\ \/ \E r \in cStore :
                /\ r.id = p.id
                /\ cPending' = (cPending \ {p}) \cup
                      { [id |-> p.id, got |-> "row", user_id |-> r.user_id] }
           \/ /\ \A r \in cStore : r.id # p.id
              /\ cPending' = (cPending \ {p}) \cup
                      { [id |-> p.id, got |-> "error", user_id |-> "none"] }
        /\ UNCHANGED << cStore, cNextId, cChannel, cMessages, cLoading,
                        cFetches, cDeleting >>

\* INSERT handler after its await: the row, if any, goes to the end.
CHandlerResume ==
    \E p \in cPending :
        /\ p.got # "wait"
        /\ cPending' = cPending \ {p}
        /\ cMessages' = IF p.got = "row"
                        THEN Append(cMessages, CollegeRow(p.id, p.user_id))
                        ELSE cMessages
        /\ UNCHANGED << cStore, cNextId, cChannel, cLoading, cFetches, cDeleting >>

\* DELETE handler.
CDeliverDelete ==
    /\ cChannel # << >>
    /\ Head(cChannel).type = "DELETE"
    /\ cMessages' = OnDelete(cMessages, Head(cChannel).id)
    /\ cChannel' = Tail(cChannel)
    /\ UNCHANGED << cStore, cNextId, cPending, cLoading, cFetches, cDeleting >>

\* handleDeleteMessage, up to its await: the viewer's own message leaves the
\* list at once and the delete is requested.
CDeleteClick ==
    \E i \in DOMAIN cMessages :
        /\ ~cLoading
        /\ cMessages[i].user_id = Me
        /\ cMessages[i].id \notin cDeleting
        /\ cMessages' = OnDelete(cMessages, cMessages[i].id)
        /\ cDeleting' = cDeleting \cup { cMessages[i].id }
        /\ UNCHANGED << cStore, cNextId, cChannel, cPending, cLoading, cFetches >>

\* The server applies a delete and broadcasts it if a row went.
CDeleteApply ==
    \E id \in cDeleting :
        /\ Len(cChannel) < MaxQueue
        /\ cDeleting' = cDeleting \ {id}
        /\ cStore' = { r \in cStore : r.id # id }
        /\ cChannel' = IF cStore' # cStore
                       THEN Append(cChannel, [type |-> "DELETE", id |-> id])
                       ELSE cChannel
        /\ UNCHANGED << cNextId, cPending, cMessages, cLoading, cFetches >>

\* handleDeleteMessage after its await, with an error: fetchMessages.
CDeleteError ==
    \E id \in cDeleting :
        /\ Len(cFetches) < MaxFetches
        /\ cDeleting' = cDeleting \ {id}
        /\ cLoading' = TRUE
        /\ cFetches' = Append(cFetches,
                             [pc |-> "select", data |-> << >>, revert |-> id])
        /\ UNCHANGED << cStore, cNextId, cChannel, cPending, cMessages >>

\* Another member deletes a message of theirs.
CPeerDelete ==
    \E r \in cStore :
        /\ r.user_id = Peer
        /\ Len(cChannel) < MaxQueue
        /\ cStore' = cStore \ {r}
        /\ cChannel' = Append(cChannel, [type |-> "DELETE", id |-> r.id])
        /\ UNCHANGED << cNextId, cPending, cMessages, cLoading, cFetches,
                        cDeleting >>

CollegeNext ==
    \/ CFetchSelect /\ UNCHANGED notCollege
    \/ CFetchResolve /\ UNCHANGED notCollege
    \/ CFetchError /\ UNCHANGED notCollege
    \/ CSend /\ UNCHANGED notCollege
    \/ CDeliverInsert /\ UNCHANGED notCollege
    \/ CHandlerSelect /\ UNCHANGED notCollege
    \/ CHandlerResume /\ UNCHANGED notCollege
    \/ CDeliverDelete /\ UNCHANGED notCollege
    \/ CDeleteClick /\ UNCHANGED notCollege
    \/ CDeleteApply /\ UNCHANGED notCollege
    \/ CDeleteError /\ UNCHANGED notCollege
    \/ CPeerDelete /\ UNCHANGED notCollege

(***************************************************************************)
(* Typing presence of a conversation view.  ChatPage keeps the typing      *)
(* channel in typingChannelRef from the moment the effect runs;            *)
(* GroupChatPage keeps its channel in channelRef once it is SUBSCRIBED.    *)
(***************************************************************************)
IdleMs == 2000
TickMs == IdleMs \div 2

Drafts == Strings({"a", " "}, MaxDraft)

\* String.prototype.trim on a draft of letters and blanks.
RECURSIVE TrimStart(_)
TrimStart(text) ==
    IF text # << >> /\ Head(text) = " " THEN TrimStart(Tail(text)) ELSE text

RECURSIVE TrimEnd(_)
TrimEnd(text) ==
    IF text # << >> /\ text[Len(text)] = " "
    THEN TrimEnd(SubSeq(text, 1, Len(text) - 1)) ELSE text

trim(text) == TrimEnd(TrimStart(text))

\* An idle callback that tracks nothing.
IdleCallbackSilent(ref, current) == current

\* The idle timer's callback: track is_typing false on the channel the ref
\* holds, if any.
IdleCallback(ref, current) == IF ref THEN "false" ELSE current

\* handleTyping(isTyping) of ChatPage: track on the channel the ref holds.
handleTyping(ref, isTyping, current) == IF ref THEN isTyping ELSE current

composeVars == << replyingTo, fileToSend, sendFailed, submits >>

\* A guard that does not trim the draft.
RejectedUntrimmed(draft, file) == draft = << >> /\ ~file

\* The first return of handleSendMessage: no content after trim and no file
\* (fileToSend is never set outside ChatPage).
Rejected(draft, file) == trim(draft) = << >> /\ ~file

TypingInit ==
    /\ kind \in {"direct", "group", "college"}
    /\ viewOpen = TRUE
    /\ typingChannelRef = (kind = "direct")
    /\ joined = FALSE
    /\ presence = "absent"
    /\ publishedBy = "none"
    /\ typingTimeoutRef = 0
    /\ timerLeft = 0
    /\ newMessage = << >>
    /\ editingMessage = FALSE
    /\ typingSendPc = "idle"
    /\ sentContent = << >>
    /\ keystrokes = 0
    /\ replyingTo = FALSE
    /\ fileToSend = FALSE
    /\ sendFailed = FALSE
    /\ submits = 0

\* subscribe callback with SUBSCRIBED: track is_typing false.
Subscribed ==
    /\ viewOpen
    /\ kind # "college"
    /\ ~joined
    /\ joined' = TRUE
    /\ typingChannelRef' = TRUE
    /\ presence' = "false"
    /\ publishedBy' = "subscribed"
    /\ UNCHANGED << kind, viewOpen, typingTimeoutRef, timerLeft, newMessage,
                    editingMessage, typingSendPc, sentContent, keystrokes,
                    composeVars >>

\* A dependency of the subscription effect changes: its cleanup removes the
\* channel and clears the ref, and the effect opens a new channel.
Resubscribe ==
    /\ viewOpen
    /\ joined
    /\ joined' = FALSE
    /\ typingChannelRef' = (kind = "direct")
    /\ presence' = "absent"
    /\ publishedBy' = "cleanup"
    /\ UNCHANGED << kind, viewOpen, typingTimeoutRef, timerLeft, newMessage,
                    editingMessage, typingSendPc, sentContent, keystrokes,
                    composeVars >>

\* handleInputChange (ChatPage) / handleTyping (GroupChatPage).
InputChange ==
    \E text \in Drafts :
        /\ viewOpen
        /\ typingSendPc = "idle"
        /\ keystrokes < MaxKeystrokes
        /\ text # newMessage
        /\ keystrokes' = keystrokes + 1
        /\ newMessage' = text
        /\ IF kind = "college" \/ (kind = "group" /\ ~typingChannelRef)
           THEN UNCHANGED << presence, publishedBy, typingTimeoutRef, timerLeft >>
           ELSE /\ presence' = IF typingTimeoutRef = 0
                               THEN handleTyping(typingChannelRef, "true", presence)
                               ELSE presence
                /\ publishedBy' = IF typingTimeoutRef = 0 /\ typingChannelRef
                                  THEN "input" ELSE publishedBy
                /\ typingTimeoutRef' = 1
                /\ timerLeft' = IdleMs
        /\ UNCHANGED << kind, viewOpen, typingChannelRef, joined, editingMessage,
                        typingSendPc, sentContent, composeVars >>

\* Time passes on the pending idle timer.
Tick ==
    /\ typingTimeoutRef # 0
    /\ timerLeft > 0
    /\ timerLeft' = timerLeft - TickMs
    /\ UNCHANGED << kind, viewOpen, typingChannelRef, joined, presence,
                    publishedBy, typingTimeoutRef, newMessage, editingMessage,
                    typingSendPc, sentContent, keystrokes,
                    composeVars >>

\* The idle timer is due: its callback runs, mounted or not.
TimerFire ==
    /\ typingTimeoutRef # 0
    /\ timerLeft = 0
    /\ presence' = IdleCallback(typingChannelRef, presence)
    /\ publishedBy' = IF typingChannelRef THEN "timer" ELSE publishedBy
    /\ typingTimeoutRef' = 0
    /\ UNCHANGED << kind, viewOpen, typingChannelRef, joined, timerLeft,
                    newMessage, editingMessage, typingSendPc, sentContent,
                    keystrokes,
                    composeVars >>

\* onEdit of a message, and the effect that puts its body in the draft.
StartEdit ==
    \E text \in Drafts :
        /\ viewOpen
        /\ typingSendPc = "idle"
        /\ kind # "college"
        /\ ~editingMessage
        /\ editingMessage' = TRUE
        /\ replyingTo' = FALSE
        /\ newMessage' = text
        /\ UNCHANGED << kind, viewOpen, typingChannelRef, joined, presence,
                        publishedBy, typingTimeoutRef, timerLeft, typingSendPc,
                        sentContent, keystrokes, fileToSend, sendFailed,
                        submits >>

\* onReply of a message.
StartReply ==
    /\ viewOpen
    /\ kind # "college"
    /\ typingSendPc = "idle"
    /\ ~replyingTo \/ editingMessage
    /\ replyingTo' = TRUE
    /\ editingMessage' = FALSE
    /\ UNCHANGED << kind, viewOpen, typingChannelRef, joined, presence,
                    publishedBy, typingTimeoutRef, timerLeft, newMessage,
                    typingSendPc, sentContent, keystrokes, fileToSend,
                    sendFailed, submits >>

\* handleFileChange with a file, and resetFileInput (ChatPage).
FileChange ==
    /\ viewOpen
    /\ kind = "direct"
    /\ typingSendPc = "idle"
    /\ fileToSend' = ~fileToSend
    /\ UNCHANGED << kind, viewOpen, typingChannelRef, joined, presence,
                    publishedBy, typingTimeoutRef, timerLeft, newMessage,
                    editingMessage, typingSendPc, sentContent, keystrokes,
                    replyingTo, sendFailed, submits >>

\* The cancel button of the reply / edit banner.
CancelEdit ==
    /\ viewOpen
    /\ editingMessage \/ replyingTo
    /\ typingSendPc = "idle"
    /\ editingMessage' = FALSE
    /\ replyingTo' = FALSE
    /\ newMessage' = << >>
    /\ UNCHANGED << kind, viewOpen, typingChannelRef, joined, presence,
                    publishedBy, typingTimeoutRef, timerLeft, typingSendPc,
                    sentContent, keystrokes, fileToSend, sendFailed, submits >>

\* handleSendMessage up to its first await.  A draft without content (and
\* without a file) returns at once; an edit goes to handleUpdateMessage,
\* which leaves the typing state alone; a send tracks is_typing false and,
\* in ChatPage, clears the idle timer before the await (GroupChatPage clears
\* it after awaiting the track); CollegeChat requests the insert at once.
Submit ==
    /\ viewOpen
    /\ typingSendPc = "idle"
    /\ submits < MaxSubmits
    /\ submits' = submits + 1
    /\ IF Rejected(newMessage, fileToSend)
       THEN UNCHANGED << presence, publishedBy, typingTimeoutRef, timerLeft,
                         newMessage, typingSendPc, sentContent, sendFailed >>
       ELSE /\ sentContent' = trim(newMessage)
            /\ sendFailed' = FALSE
            /\ IF editingMessage
               THEN /\ typingSendPc' = "update"
                    /\ UNCHANGED << presence, publishedBy, typingTimeoutRef,
                                    timerLeft, newMessage >>
               ELSE IF kind = "direct"
               THEN /\ typingSendPc' = "insert"
                    /\ presence' =
                          handleTyping(typingChannelRef, "false", presence)
                    /\ publishedBy' =
                          IF typingChannelRef THEN "send" ELSE publishedBy
                    /\ typingTimeoutRef' = 0
                    /\ timerLeft' = 0
                    /\ UNCHANGED newMessage
               ELSE IF kind = "group"
               THEN /\ typingSendPc' = "track"
                    /\ newMessage' = << >>
                    /\ presence' =
                          handleTyping(typingChannelRef, "false", presence)
                    /\ publishedBy' =
                          IF typingChannelRef THEN "send" ELSE publishedBy
                    /\ UNCHANGED << typingTimeoutRef, timerLeft >>
               ELSE /\ typingSendPc' = "insert"
                    /\ UNCHANGED << presence, publishedBy, typingTimeoutRef,
                                    timerLeft, newMessage >>
    /\ UNCHANGED << kind, viewOpen, typingChannelRef, joined, editingMessage,
                    keystrokes, replyingTo, fileToSend >>

\* GroupChatPage.handleSendMessage after awaiting the track: the idle timer
\* is cleared and the insert is requested.
SendTracked ==
    /\ typingSendPc = "track"
    /\ typingSendPc' = "insert"
    /\ typingTimeoutRef' = 0
    /\ timerLeft' = 0
    /\ UNCHANGED << kind, viewOpen, typingChannelRef, joined, presence,
                    publishedBy, newMessage, editingMessage, sentContent,
                    keystrokes,
                    composeVars >>

\* A send that leaves the sending state only when the insert succeeded.
AfterSendOnSuccess(ok) == IF ok THEN "idle" ELSE "stuck"

\* setIsSending(false) after the insert: in ChatPage's finally block, and
\* unconditionally in GroupChatPage and CollegeChat.
AfterSend(ok) == "idle"

\* handleSendMessage after the insert.  ChatPage clears the draft, the file
\* and the reply on success and keeps them on failure; GroupChatPage clears
\* the reply in both cases and restores the draft on failure; CollegeChat
\* clears the draft on success.
SendSettled ==
    \E ok \in BOOLEAN :
        /\ typingSendPc = "insert"
        /\ typingSendPc' = AfterSend(ok)
        /\ sendFailed' = ~ok
        /\ newMessage' = IF ok THEN << >>
                         ELSE IF kind = "group" THEN sentContent
                         ELSE newMessage
        /\ replyingTo' = IF kind = "group" \/ ok THEN FALSE ELSE replyingTo
        /\ fileToSend' = IF ok THEN FALSE ELSE fileToSend
        /\ UNCHANGED << kind, viewOpen, typingChannelRef, joined, presence,
                        publishedBy, typingTimeoutRef, timerLeft,
                        editingMessage, sentContent, keystrokes, submits >>

\* handleUpdateMessage after its await.
UpdateDone ==
    /\ typingSendPc = "update"
    /\ typingSendPc' = "idle"
    /\ newMessage' = << >>
    /\ editingMessage' = FALSE
    /\ UNCHANGED << kind, viewOpen, typingChannelRef, joined, presence,
                    publishedBy, typingTimeoutRef, timerLeft, sentContent,
                    keystrokes,
                    composeVars >>

\* The view unmounts: the cleanup removes the channel and clears the ref.
\* The idle timer is left as it is.
Close ==
    /\ viewOpen
    /\ viewOpen' = FALSE
    /\ joined' = FALSE
    /\ typingChannelRef' = FALSE
    /\ presence' = "absent"
    /\ publishedBy' = "cleanup"
    /\ UNCHANGED << kind, typingTimeoutRef, timerLeft, newMessage,
                    editingMessage, typingSendPc, sentContent, keystrokes,
                    composeVars >>

TypingNext ==
    \/ Subscribed /\ UNCHANGED notTyping
    \/ Resubscribe /\ UNCHANGED notTyping
    \/ InputChange /\ UNCHANGED notTyping
    \/ Tick /\ UNCHANGED notTyping
    \/ TimerFire /\ UNCHANGED notTyping
    \/ StartEdit /\ UNCHANGED notTyping
    \/ StartReply /\ UNCHANGED notTyping
    \/ FileChange /\ UNCHANGED notTyping
    \/ CancelEdit /\ UNCHANGED notTyping
    \/ Submit /\ UNCHANGED notTyping
    \/ SendTracked /\ UNCHANGED notTyping
    \/ SendSettled /\ UNCHANGED notTyping
    \/ UpdateDone /\ UNCHANGED notTyping
    \/ Close /\ UNCHANGED notTyping

(***************************************************************************)
(* Navbar: the toast for a new direct message and the unread badge.  The   *)
(* Navbar is mounted on every route, the conversation routes included.     *)
(***************************************************************************)
Other == "other"
Senders == {Peer, Other}

NoToast == [from |-> "none", id |-> 0]

NavbarInit ==
    /\ openChat = "none"
    /\ \E k \in 0..MaxMsgs : \E who \in [1..k -> Senders] :
          /\ inbound = { Row(i, who[i]) : i \in 1..k }
          /\ inboundNextId = k + 1
    /\ incomingMessages = << >>
    /\ messagesUpdate = 0
    /\ senderProfiles = {}
    /\ toast = NoToast
    /\ toastTimers = 0
    /\ unreadMessageCount = 0
    /\ countFetches = << [pc |-> "select", count |-> 0] >>

\* The user goes to another route: a conversation, or a page that is none.
Navigate ==
    \E route \in Senders \cup {"none"} :
        /\ route # openChat
        /\ openChat' = route
        /\ UNCHANGED << inbound, inboundNextId, incomingMessages, messagesUpdate,
                        senderProfiles, toast, toastTimers, unreadMessageCount,
                        countFetches >>

\* Somebody sends the user a direct message.
InboundSend ==
    \E sender \in Senders :
        /\ inboundNextId <= MaxMsgs
        /\ Len(incomingMessages) < MaxQueue
        /\ inbound' = inbound \cup { Row(inboundNextId, sender) }
        /\ inboundNextId' = inboundNextId + 1
        /\ incomingMessages' = Append(incomingMessages,
                                      [id |-> inboundNextId, sender_id |-> sender])
        /\ UNCHANGED << openChat, messagesUpdate, senderProfiles, toast,
                        toastTimers, unreadMessageCount, countFetches >>

\* A sender deletes a message sent to the user (ChatPage.handleDeleteMessage
\* of the sender); the Navbar subscribes to no DELETE of messages.
InboundDelete ==
    \E r \in inbound :
        /\ inbound' = inbound \ {r}
        /\ UNCHANGED << openChat, inboundNextId, incomingMessages,
                        messagesUpdate, senderProfiles, toast, toastTimers,
                        unreadMessageCount, countFetches >>

\* The open conversation marks what its counterpart sent as seen
\* (ChatPage.markMessagesAsSeen applied): one UPDATE event per row.
OpenChatMarksSeen ==
    LET hit == { r \in inbound : r.sender = openChat /\ ~r.is_seen }
    IN /\ hit # {}
       /\ messagesUpdate + Cardinality(hit) <= MaxQueue
       /\ inbound' = (inbound \ hit) \cup { [r EXCEPT !.is_seen = TRUE] : r \in hit }
       /\ messagesUpdate' = messagesUpdate + Cardinality(hit)
       /\ UNCHANGED << openChat, inboundNextId, incomingMessages, senderProfiles,
                       toast, toastTimers, unreadMessageCount, countFetches >>

\* incomingMessagesChannel handler up to its await: the unread count is
\* fetched again and the sender's profile is asked for.
IncomingMessage ==
    /\ incomingMessages # << >>
    /\ Len(countFetches) < MaxCounts
    /\ countFetches' = Append(countFetches, [pc |-> "select", count |-> 0])
    /\ senderProfiles' = senderProfiles \cup { Head(incomingMessages) }
    /\ incomingMessages' = Tail(incomingMessages)
    /\ UNCHANGED << openChat, inbound, inboundNextId, messagesUpdate, toast,
                    toastTimers, unreadMessageCount >>

\* incomingMessagesChannel handler after its await: with a profile, the
\* toast is set and its 5000 ms timer started.
SenderProfileResolve ==
    \E event \in senderProfiles : \E found \in BOOLEAN :
        /\ senderProfiles' = senderProfiles \ {event}
        /\ toast' = IF found THEN [from |-> event.sender_id, id |-> event.id]
                    ELSE toast
        /\ toastTimers' = IF found THEN toastTimers + 1 ELSE toastTimers
        /\ UNCHANGED << openChat, inbound, inboundNextId, incomingMessages,
                        messagesUpdate, unreadMessageCount, countFetches >>

\* A toast timer is due: setToast(null).
ToastTimeout ==
    /\ toastTimers > 0
    /\ toastTimers' = toastTimers - 1
    /\ toast' = NoToast
    /\ UNCHANGED << openChat, inbound, inboundNextId, incomingMessages,
                    messagesUpdate, senderProfiles, unreadMessageCount,
                    countFetches >>

\* The toast's close button, or its link to the sender's conversation.
ToastClick ==
    \E follow \in BOOLEAN :
        /\ toast # NoToast
        /\ toast' = NoToast
        /\ openChat' = IF follow THEN toast.from ELSE openChat
        /\ UNCHANGED << inbound, inboundNextId, incomingMessages, messagesUpdate,
                        senderProfiles, toastTimers, unreadMessageCount,
                        countFetches >>

\* messagesUpdateChannel handler: the unread count is fetched again.
MessagesUpdate ==
    /\ messagesUpdate > 0
    /\ Len(countFetches) < MaxCounts
    /\ messagesUpdate' = messagesUpdate - 1
    /\ countFetches' = Append(countFetches, [pc |-> "select", count |-> 0])
    /\ UNCHANGED << openChat, inbound, inboundNextId, incomingMessages,
                    senderProfiles, toast, toastTimers, unreadMessageCount >>

\* fetchUnreadMessageCount: the server counts the unseen rows.
CountSelect ==
    \E i \in DOMAIN countFetches :
        /\ countFetches[i].pc = "select"
        /\ countFetches' = [countFetches EXCEPT ![i] =
              [pc |-> "resolve",
               count |-> Cardinality({ r \in inbound : ~r.is_seen })]]
        /\ UNCHANGED << openChat, inbound, inboundNextId, incomingMessages,
                        messagesUpdate, senderProfiles, toast, toastTimers,
                        unreadMessageCount >>

\* fetchUnreadMessageCount after its await: setUnreadMessageCount.
CountResolve ==
    \E i \in DOMAIN countFetches :
        /\ countFetches[i].pc = "resolve"
        /\ unreadMessageCount' = countFetches[i].count
        /\ countFetches' = RemoveAt(countFetches, i)
        /\ UNCHANGED << openChat, inbound, inboundNextId, incomingMessages,
                        messagesUpdate, senderProfiles, toast, toastTimers >>

NavbarNext ==
    \/ Navigate /\ UNCHANGED notNavbar
    \/ InboundSend /\ UNCHANGED notNavbar
    \/ InboundDelete /\ UNCHANGED notNavbar
    \/ OpenChatMarksSeen /\ UNCHANGED notNavbar
    \/ IncomingMessage /\ UNCHANGED notNavbar
    \/ SenderProfileResolve /\ UNCHANGED notNavbar
    \/ ToastTimeout /\ UNCHANGED notNavbar
    \/ ToastClick /\ UNCHANGED notNavbar
    \/ MessagesUpdate /\ UNCHANGED notNavbar
    \/ CountSelect /\ UNCHANGED notNavbar
    \/ CountResolve /\ UNCHANGED notNavbar

NavbarIdle ==
    /\ openChat = "none" /\ inbound = {} /\ inboundNextId = 1
    /\ incomingMessages = << >> /\ messagesUpdate = 0 /\ senderProfiles = {}
    /\ toast = NoToast /\ toastTimers = 0 /\ unreadMessageCount = 0
    /\ countFetches = << >>

(***************************************************************************)
(* Inbox (ChatListPage).  A row of the user is [id, other]: other is the  *)
(* other user of its conversation, whoever sent it.  The fetch is limited  *)
(* to 200 rows; the model stays below that.                                *)
(***************************************************************************)
Conversation(profile, last_message) ==
    [profile |-> profile, last_message |-> last_message]

\* The newest row of a conversation (the first of each other user in the
\* rows ordered by created_at descending).
LastMessage(rows, other) ==
    CHOOSE r \in rows : r.other = other /\
        \A q \in rows : q.other = other => created_at(q) <= created_at(r)

\* profiles.map(...).sort(...): newest last_message first.
RECURSIVE SortByLastMessageDesc(_)
SortByLastMessageDesc(entries) ==
    IF entries = {} THEN << >>
    ELSE LET first == CHOOSE e \in entries : \A f \in entries :
                          created_at(f.last_message) <= created_at(e.last_message)
         IN << first >> \o SortByLastMessageDesc(entries \ {first})

RECURSIVE FilterOther(_, _)
FilterOther(list, other) ==
    IF list = << >> THEN << >>
    ELSE (IF Head(list).profile # other THEN << Head(list) >> ELSE << >>)
         \o FilterOther(Tail(list), other)

InboxInit ==
    /\ \E k \in 0..MaxMsgs : \E who \in [1..k -> Senders] :
          /\ allMessages = { [id |-> i, other |-> who[i]] : i \in 1..k }
          /\ allNextId = k + 1
    /\ listChannel = << >>
    /\ conversations = << >>
    /\ conversationsRef = << >>
    /\ listLoading = TRUE
    /\ listFetchPc = "messages"
    /\ listFetchData = {}
    /\ profileFetches = {}

\* fetchConversations: the messages select, and the map of the newest row
\* of each other user.  Without rows the list is set empty at once.
ListFetchMessages ==
    /\ listFetchPc = "messages"
    /\ LET others == { r.other : r \in allMessages }
       IN /\ listFetchData' =
                { Conversation(o, LastMessage(allMessages, o)) : o \in others }
          /\ IF others = {}
             THEN /\ conversations' = << >>
                  /\ listLoading' = FALSE
                  /\ listFetchPc' = "done"
             ELSE /\ listFetchPc' = "profiles"
                  /\ UNCHANGED << conversations, listLoading >>
    /\ UNCHANGED << allMessages, allNextId, listChannel, conversationsRef,
                    profileFetches >>

\* fetchConversations after the profiles select: the sorted entries are set.
ListFetchResolve ==
    /\ listFetchPc = "profiles"
    /\ conversations' = SortByLastMessageDesc(listFetchData)
    /\ listLoading' = FALSE
    /\ listFetchPc' = "done"
    /\ listFetchData' = {}
    /\ UNCHANGED << allMessages, allNextId, listChannel, conversationsRef,
                    profileFetches >>

\* fetchConversations with an error of either select.
ListFetchFail ==
    /\ listFetchPc \in {"messages", "profiles"}
    /\ listLoading' = FALSE
    /\ listFetchPc' = "done"
    /\ listFetchData' = {}
    /\ UNCHANGED << allMessages, allNextId, listChannel, conversations,
                    conversationsRef, profileFetches >>

\* The effect on [conversations]: the ref follows the state.
SyncConversationsRef ==
    /\ conversationsRef # conversations
    /\ conversationsRef' = conversations
    /\ UNCHANGED << allMessages, allNextId, listChannel, conversations,
                    listLoading, listFetchPc, listFetchData, profileFetches >>

\* A message is stored in one of the user's conversations.
ListSend ==
    \E other \in Senders :
        /\ allNextId <= MaxMsgs
        /\ Len(listChannel) < MaxQueue
        /\ allMessages' = allMessages \cup { [id |-> allNextId, other |-> other] }
        /\ allNextId' = allNextId + 1
        /\ listChannel' = Append(listChannel,
              [type |-> "INSERT", new |-> [id |-> allNextId, other |-> other]])
        /\ UNCHANGED << conversations, conversationsRef, listLoading,
                        listFetchPc, listFetchData, profileFetches >>

\* A message of one of the user's conversations is deleted.
ListDelete ==
    \E r \in allMessages :
        /\ Len(listChannel) < MaxQueue
        /\ allMessages' = allMessages \ {r}
        /\ listChannel' = Append(listChannel, [type |-> "DELETE", new |-> r])
        /\ UNCHANGED << allNextId, conversations, conversationsRef, listLoading,
                        listFetchPc, listFetchData, profileFetches >>

\* INSERT handler: an entry the ref holds is replaced and moved to the top;
\* otherwise the other user's profile is asked for.
ListInsert ==
    /\ listChannel # << >>
    /\ Head(listChannel).type = "INSERT"
    /\ LET newMsg == Head(listChannel).new
           existing == \E i \in DOMAIN conversationsRef :
                           conversationsRef[i].profile = newMsg.other
       IN IF existing
          THEN /\ conversations' =
                     << Conversation(newMsg.other, newMsg) >>
                     \o FilterOther(conversationsRef, newMsg.other)
               /\ UNCHANGED profileFetches
          ELSE /\ profileFetches' = profileFetches \cup { newMsg }
               /\ UNCHANGED conversations
    /\ listChannel' = Tail(listChannel)
    /\ UNCHANGED << allMessages, allNextId, conversationsRef, listLoading,
                    listFetchPc, listFetchData >>

\* INSERT handler after its await: with the profile, a new entry goes on top.
ListProfileResolve ==
    \E newMsg \in profileFetches : \E found \in BOOLEAN :
        /\ profileFetches' = profileFetches \ {newMsg}
        /\ conversations' =
              IF found
              THEN << Conversation(newMsg.other, newMsg) >> \o conversations
              ELSE conversations
        /\ UNCHANGED << allMessages, allNextId, listChannel, conversationsRef,
                        listLoading, listFetchPc, listFetchData >>

\* A change other than INSERT: the subscription has no handler for it.
ListOtherEvent ==
    /\ listChannel # << >>
    /\ Head(listChannel).type # "INSERT"
    /\ listChannel' = Tail(listChannel)
    /\ UNCHANGED << allMessages, allNextId, conversations, conversationsRef,
                    listLoading, listFetchPc, listFetchData, profileFetches >>

InboxNext ==
    \/ ListFetchMessages /\ UNCHANGED notInbox
    \/ ListFetchResolve /\ UNCHANGED notInbox
    \/ ListFetchFail /\ UNCHANGED notInbox
    \/ SyncConversationsRef /\ UNCHANGED notInbox
    \/ ListSend /\ UNCHANGED notInbox
    \/ ListDelete /\ UNCHANGED notInbox
    \/ ListInsert /\ UNCHANGED notInbox
    \/ ListProfileResolve /\ UNCHANGED notInbox
    \/ ListOtherEvent /\ UNCHANGED notInbox

InboxIdle ==
    /\ allMessages = {} /\ allNextId = 1 /\ listChannel = << >>
    /\ conversations = << >> /\ conversationsRef = << >> /\ listLoading = TRUE
    /\ listFetchPc = "messages" /\ listFetchData = {} /\ profileFetches = {}

(***************************************************************************)
(* Study group (GroupChatPage): fetchData and the one channel that carries *)
(* the message changes and the presence of the group.  A row is            *)
(* [id, user_id]; the group's other member is Peer.  The server delivers   *)
(* changes to a channel only while it is SUBSCRIBED.                       *)
(***************************************************************************)
GroupRow(id, user) == [id |-> id, user_id |-> user]

\* The subscription effect, run for the values of group and isMember of a
\* render: the guard returns before the channel is created.
SubscriptionEffect(grp, member) ==
    IF grp = "private" /\ ~member THEN "none" ELSE "joining"

\* handleNewMessage: the sender's profile is looked up in members (or is the
\* user's own); without it the row is dropped; a row on the list is kept once.
handleNewMessage(current, new, profiles) ==
    IF ~(new.user_id \in profiles \/ new.user_id = Me) THEN current
    ELSE IF new.id \in Ids(current) THEN current
    ELSE Append(current, new)

GroupInit ==
    /\ groupType \in {"public", "private"}
    /\ memberIds \in BOOLEAN
    /\ group = "null"
    /\ isMember = FALSE
    /\ members = {}
    /\ gLoading = TRUE
    /\ gFetchPc = "group"
    /\ gFetchData = << >>
    /\ historyFetched = FALSE
    /\ gStatus = SubscriptionEffect("null", FALSE)
    /\ \E k \in 0..MaxMsgs : \E who \in [1..k -> {Me, Peer}] :
          /\ gStore = { GroupRow(i, who[i]) : i \in 1..k }
          /\ gNextId = k + 1
    /\ gChannel = << >>
    /\ gMessages = << >>

\* fetchData after the study_groups select; the effect runs again for the
\* new group.
GFetchGroup ==
    /\ gFetchPc = "group"
    /\ \E ok \in BOOLEAN :
          IF ok
          THEN /\ group' = groupType
               /\ gFetchPc' = "members"
               /\ gStatus' = SubscriptionEffect(groupType, isMember)
               /\ gChannel' = << >>
               /\ UNCHANGED gLoading
          ELSE /\ gLoading' = FALSE
               /\ gFetchPc' = "done"
               /\ UNCHANGED << group, gStatus, gChannel >>
    /\ UNCHANGED << groupType, memberIds, isMember, members, gFetchData,
                    historyFetched, gStore, gNextId, gMessages >>

\* fetchData after the study_group_members select; a private group returns
\* here for a user who is not a member.
GFetchMembers ==
    /\ gFetchPc = "members"
    /\ \E ok \in BOOLEAN :
          IF ok
          THEN /\ isMember' = memberIds
               /\ IF group = "private" /\ ~memberIds
                  THEN gLoading' = FALSE /\ gFetchPc' = "done"
                  ELSE gFetchPc' = "profiles" /\ UNCHANGED gLoading
               /\ IF isMember' # isMember
                  THEN /\ gStatus' = SubscriptionEffect(group, isMember')
                       /\ gChannel' = << >>
                  ELSE UNCHANGED << gStatus, gChannel >>
          ELSE /\ gLoading' = FALSE
               /\ gFetchPc' = "done"
               /\ UNCHANGED << isMember, gStatus, gChannel >>
    /\ UNCHANGED << groupType, memberIds, group, members, gFetchData,
                    historyFetched, gStore, gNextId, gMessages >>

\* fetchData after the profiles select of the users study_group_members
\* held (Peer may join the group later); with any, setMembers runs and the
\* effect runs again for members.
GFetchProfiles ==
    /\ gFetchPc = "profiles"
    /\ \E peerJoined \in BOOLEAN :
          members' = (IF memberIds THEN {Me} ELSE {})
                     \cup (IF peerJoined THEN {Peer} ELSE {})
    /\ gFetchPc' = "messages"
    /\ IF members' # {}
       THEN /\ gStatus' = SubscriptionEffect(group, isMember)
            /\ gChannel' = << >>
       ELSE UNCHANGED << gStatus, gChannel >>
    /\ UNCHANGED << groupType, memberIds, group, isMember, gLoading, gFetchData,
                    historyFetched, gStore, gNextId, gMessages >>

\* fetchData: the study_group_messages select, ordered by created_at.
GFetchMessages ==
    /\ gFetchPc = "messages"
    /\ gFetchData' = OrderByCreatedAt(gStore)
    /\ historyFetched' = TRUE
    /\ gFetchPc' = "set"
    /\ UNCHANGED << groupType, memberIds, group, isMember, members, gLoading,
                    gStatus, gStore, gNextId, gChannel, gMessages >>

\* fetchData after the messages select.
GFetchSet ==
    /\ gFetchPc = "set"
    /\ gMessages' = gFetchData
    /\ gLoading' = FALSE
    /\ gFetchPc' = "done"
    /\ gFetchData' = << >>
    /\ UNCHANGED << groupType, memberIds, group, isMember, members,
                    historyFetched, gStatus, gStore, gNextId, gChannel >>

\* subscribe callback with status SUBSCRIBED.
GSubscribed ==
    /\ gStatus = "joining"
    /\ gStatus' = "SUBSCRIBED"
    /\ UNCHANGED << groupType, memberIds, group, isMember, members, gLoading,
                    gFetchPc, gFetchData, historyFetched, gStore, gNextId,
                    gChannel, gMessages >>

\* subscribe callback with another status: the callback does nothing.
GSubscribeError ==
    /\ gStatus = "joining"
    /\ gStatus' = "CHANNEL_ERROR"
    /\ UNCHANGED << groupType, memberIds, group, isMember, members, gLoading,
                    gFetchPc, gFetchData, historyFetched, gStore, gNextId,
                    gChannel, gMessages >>

\* A member stores a message in the group.
GInsert ==
    \E user \in {Me, Peer} :
        /\ gNextId <= MaxMsgs
        /\ Len(gChannel) < MaxQueue
        /\ gStore' = gStore \cup { GroupRow(gNextId, user) }
        /\ gNextId' = gNextId + 1
        /\ gChannel' =
              IF gStatus = "SUBSCRIBED"
              THEN Append(gChannel,
                          [type |-> "INSERT", new |-> GroupRow(gNextId, user)])
              ELSE gChannel
        /\ UNCHANGED << groupType, memberIds, group, isMember, members,
                        gLoading, gFetchPc, gFetchData, historyFetched, gStatus,
                        gMessages >>

\* handleDeleteMessage of any member: the row is deleted.
GDelete ==
    \E r \in gStore :
        /\ Len(gChannel) < MaxQueue
        /\ gStore' = gStore \ {r}
        /\ gChannel' =
              IF gStatus = "SUBSCRIBED"
              THEN Append(gChannel, [type |-> "DELETE", new |-> r])
              ELSE gChannel
        /\ UNCHANGED << groupType, memberIds, group, isMember, members,
                        gLoading, gFetchPc, gFetchData, historyFetched, gStatus,
                        gNextId, gMessages >>

\* The channel's INSERT handler.
GOnInsert ==
    /\ gChannel # << >>
    /\ Head(gChannel).type = "INSERT"
    /\ gMessages' = handleNewMessage(gMessages, Head(gChannel).new, members)
    /\ gChannel' = Tail(gChannel)
    /\ UNCHANGED << groupType, memberIds, group, isMember, members, gLoading,
                    gFetchPc, gFetchData, historyFetched, gStatus, gStore,
                    gNextId >>

\* The channel's DELETE handler.
GOnDelete ==
    /\ gChannel # << >>
    /\ Head(gChannel).type = "DELETE"
    /\ gMessages' = OnDelete(gMessages, Head(gChannel).new.id)
    /\ gChannel' = Tail(gChannel)
    /\ UNCHANGED << groupType, memberIds, group, isMember, members, gLoading,
                    gFetchPc, gFetchData, historyFetched, gStatus, gStore,
                    gNextId >>

GroupNext ==
    \/ GFetchGroup /\ UNCHANGED notGroup
    \/ GFetchMembers /\ UNCHANGED notGroup
    \/ GFetchProfiles /\ UNCHANGED notGroup
    \/ GFetchMessages /\ UNCHANGED notGroup
    \/ GFetchSet /\ UNCHANGED notGroup
    \/ GSubscribed /\ UNCHANGED notGroup
    \/ GSubscribeError /\ UNCHANGED notGroup
    \/ GInsert /\ UNCHANGED notGroup
    \/ GDelete /\ UNCHANGED notGroup
    \/ GOnInsert /\ UNCHANGED notGroup
    \/ GOnDelete /\ UNCHANGED notGroup

GroupIdle ==
    /\ groupType = "public" /\ memberIds = FALSE /\ group = "null"
    /\ isMember = FALSE /\ members = {} /\ gLoading = TRUE
    /\ gFetchPc = "group" /\ gFetchData = << >> /\ historyFetched = FALSE
    /\ gStatus = "none" /\ gStore = {} /\ gNextId = 1 /\ gChannel = << >>
    /\ gMessages = << >>

(***************************************************************************)
(* Typing indicator of a study group.  Every user of the channel tracks    *)
(* {is_typing, name} under the presence key name (profiles.name, which is  *)
(* set for every user here); the viewer is Me.  The text of the indicator  *)
(* is a sequence of its words.                                             *)
(***************************************************************************)
GroupMembers == {"u1", "u2", "u3"}
GroupUsers == GroupMembers \cup {Me}
Names == {"ann", "bob", "cy", "dee"}
NameOrder == << "ann", "bob", "cy", "dee" >>

\* The names of a set, in the order of the presence state's keys.
RECURSIVE InKeyOrder(_, _)
InKeyOrder(names, order) ==
    IF order = << >> THEN << >>
    ELSE (IF Head(order) \in names THEN << Head(order) >> ELSE << >>)
         \o InKeyOrder(names, Tail(order))

\* The presence sync handler: a key is added when one of its presences has
\* is_typing; the key is the name its users track.
PresenceSync(state, name) ==
    { name[u] : u \in { v \in GroupUsers : state[v] = "true" } }

\* typingUsers: the names of typing but the viewer's own.
typingUsers == InKeyOrder(typing \ { profileName[Me] }, NameOrder)

\* Array.prototype.join(' and ').
RECURSIVE JoinAnd(_)
JoinAnd(list) ==
    IF list = << >> THEN << >>
    ELSE IF Len(list) = 1 THEN list
    ELSE << Head(list), "and" >> \o JoinAnd(Tail(list))

\* TypingIndicator: the text it renders, << >> for the empty div.
TypingIndicator(users) ==
    IF Len(users) = 0 THEN << >>
    ELSE IF Len(users) > 2 THEN << ToString(Len(users)), "people are typing..." >>
    ELSE JoinAnd(users)
         \o << IF Len(users) > 1 THEN "are typing..." ELSE "is typing..." >>

IndicatorInit ==
    /\ profileName \in [GroupUsers -> Names]
    /\ presenceState = [u \in GroupUsers |-> "absent"]
    /\ typing = {}

\* A user's subscribe callback tracks is_typing false; the viewer's sync
\* handler runs.
PresenceJoin ==
    \E u \in GroupUsers :
        /\ presenceState[u] = "absent"
        /\ presenceState' = [presenceState EXCEPT ![u] = "false"]
        /\ typing' = PresenceSync(presenceState', profileName)
        /\ UNCHANGED profileName

\* A user's handleTyping tracks is_typing true, or its idle timer or send
\* tracks false; the viewer's sync handler runs.
PresenceTrack ==
    \E u \in GroupUsers : \E value \in {"false", "true"} :
        /\ presenceState[u] \notin {"absent", value}
        /\ presenceState' = [presenceState EXCEPT ![u] = value]
        /\ typing' = PresenceSync(presenceState', profileName)
        /\ UNCHANGED profileName

\* A user's channel is removed; the viewer's sync handler runs.
PresenceLeave ==
    \E u \in GroupMembers :
        /\ presenceState[u] # "absent"
        /\ presenceState' = [presenceState EXCEPT ![u] = "absent"]
        /\ typing' = PresenceSync(presenceState', profileName)
        /\ UNCHANGED profileName

IndicatorNext ==
    \/ PresenceJoin /\ UNCHANGED notIndicator
    \/ PresenceTrack /\ UNCHANGED notIndicator
    \/ PresenceLeave /\ UNCHANGED notIndicator

IndicatorIdle ==
    /\ profileName = [u \in GroupUsers |-> "ann"]
    /\ presenceState = [u \in GroupUsers |-> "absent"]
    /\ typing = {}

(***************************************************************************)
(* The UPDATE and DELETE handlers of ChatPage and GroupChatPage as state   *)
(* updaters of a list.  A row is [id, rev]: rev stands for its columns     *)
(* that change (content, is_seen).  An entry of GroupChatPage also carries *)
(* the joined profile of its sender, which an event's row does not have.   *)
(***************************************************************************)
Revs == {0, 1}
EventRows == [id : 1..MaxMsgs, rev : Revs]
GroupEntries == [id : 1..MaxMsgs, rev : Revs, profiles : {Me, Peer}]

Lists(entries) == UNION { [1..n -> entries] : n \in 0..MaxMsgs }

\* GroupChatPage's UPDATE handler: the row of the event with the profile of
\* the entry it replaces.
GroupOnUpdate(list, m) ==
    [i \in DOMAIN list |->
        IF list[i].id = m.id
        THEN [id |-> m.id, rev |-> m.rev, profiles |-> list[i].profiles]
        ELSE list[i]]

HandlerInit ==
    /\ hKind \in {"direct", "group"}
    /\ hList \in (IF hKind = "direct" THEN Lists(EventRows)
                  ELSE Lists(GroupEntries))
    /\ hEvent = [type |-> "none"]

\* An UPDATE event is handled.
HandleUpdate ==
    \E m \in EventRows :
        /\ hEvent' = [type |-> "UPDATE", new |-> m]
        /\ hList' = IF hKind = "direct" THEN OnUpdate(hList, m)
                    ELSE GroupOnUpdate(hList, m)
        /\ UNCHANGED hKind

\* A DELETE event is handled.
HandleDelete ==
    \E id \in 1..MaxMsgs :
        /\ hEvent' = [type |-> "DELETE", old |-> id]
        /\ hList' = OnDelete(hList, id)
        /\ UNCHANGED hKind

HandlerNext ==
    \/ HandleUpdate /\ UNCHANGED notHandler
    \/ HandleDelete /\ UNCHANGED notHandler

HandlerIdle == hKind = "direct" /\ hList = << >> /\ hEvent = [type |-> "none"]

(***************************************************************************)
(* ChatPage when the route goes from one recipient to another: the same    *)
(* component stays mounted, fetchChatData gets a new identity and its      *)
(* effect calls it again.  Nothing cancels a call in flight.               *)
(***************************************************************************)
RowsWith(other) == { r \in directRows : r.other = other }

SwitchInit ==
    /\ recipientId \in Senders
    /\ \E k \in 0..MaxMsgs : \E who \in [1..k -> Senders] :
          directRows = { [id |-> i, other |-> who[i]] : i \in 1..k }
    /\ chatFetches = { [recipient |-> recipientId, pc |-> "profile",
                        data |-> << >>] }
    /\ directMessages = << >>
    /\ historyResolved = FALSE
    /\ switches = 0

\* The route's recipientId changes: the effect on [fetchChatData] runs.
SwitchRecipient ==
    \E other \in Senders \ {recipientId} :
        /\ switches < MaxSwitches
        /\ switches' = switches + 1
        /\ recipientId' = other
        /\ chatFetches' = chatFetches \cup
              { [recipient |-> other, pc |-> "profile", data |-> << >>] }
        /\ historyResolved' = FALSE
        /\ UNCHANGED << directRows, directMessages >>

\* fetchChatData: the profile arrived and the messages select of the call's
\* recipient runs.
SwitchFetchSelect ==
    \E f \in chatFetches :
        /\ f.pc = "profile"
        /\ chatFetches' = (chatFetches \ {f}) \cup
              { [recipient |-> f.recipient, pc |-> "select",
                 data |-> OrderByCreatedAt(RowsWith(f.recipient))] }
        /\ UNCHANGED << recipientId, directRows, directMessages,
                        historyResolved, switches >>

\* fetchChatData: setMessages(messagesData).
SwitchFetchResolve ==
    \E f \in chatFetches :
        /\ f.pc = "select"
        /\ chatFetches' = chatFetches \ {f}
        /\ directMessages' = f.data
        /\ historyResolved' = (historyResolved \/ f.recipient = recipientId)
        /\ UNCHANGED << recipientId, directRows, switches >>

\* fetchChatData: a request failed; the list is left as it is.
SwitchFetchFail ==
    \E f \in chatFetches :
        /\ chatFetches' = chatFetches \ {f}
        /\ UNCHANGED << recipientId, directRows, directMessages,
                        historyResolved, switches >>

SwitchNext ==
    \/ SwitchRecipient /\ UNCHANGED notSwitch
    \/ SwitchFetchSelect /\ UNCHANGED notSwitch
    \/ SwitchFetchResolve /\ UNCHANGED notSwitch
    \/ SwitchFetchFail /\ UNCHANGED notSwitch

SwitchIdle ==
    /\ recipientId = Peer /\ directRows = {} /\ chatFetches = {}
    /\ directMessages = << >> /\ historyResolved = FALSE /\ switches = 0

\* Parts of the state a specification does not exercise stay as constructed.
ChatIdle ==
    /\ store = {} /\ nextId = 1 /\ channel = << >> /\ messages = << >>
    /\ loading = TRUE /\ fetchPc = "profile" /\ fetchData = << >>
    /\ sendPc = "idle" /\ insertedMessage = << >> /\ hidden = FALSE
    /\ seenRequests = 0 /\ lastMarked = 0 /\ seenBy = "none"
CollegeIdle ==
    /\ cStore = {} /\ cNextId = 1 /\ cChannel = << >> /\ cPending = {}
    /\ cMessages = << >> /\ cLoading = TRUE /\ cFetches = << >>
    /\ cDeleting = {}
TypingIdle ==
    /\ kind = "direct" /\ viewOpen = FALSE /\ typingChannelRef = FALSE
    /\ joined = FALSE /\ presence = "absent" /\ publishedBy = "none"
    /\ typingTimeoutRef = 0 /\ timerLeft = 0 /\ newMessage = << >>
    /\ editingMessage = FALSE /\ typingSendPc = "idle" /\ sentContent = << >>
    /\ keystrokes = 0 /\ replyingTo = FALSE /\ fileToSend = FALSE
    /\ sendFailed = FALSE /\ submits = 0

CodecIdle == CodecInit

Init == ChatInit /\ CodecIdle /\ CollegeIdle /\ TypingIdle /\ NavbarIdle /\ InboxIdle
    /\ GroupIdle /\ IndicatorIdle /\ HandlerIdle /\ SwitchIdle

Spec == Init /\ [][ChatNext]_vars

InitCodec == CodecInit /\ ChatIdle /\ CollegeIdle /\ TypingIdle /\ NavbarIdle /\ InboxIdle
    /\ GroupIdle /\ IndicatorIdle /\ HandlerIdle /\ SwitchIdle

SpecCodec == InitCodec /\ [][CodecNext]_vars

\* The event loop runs a due timer callback, time passes, and the server
\* answers a channel's join and every request (with a result or an error).
TypingFairness ==
    /\ WF_vars(Tick /\ UNCHANGED notTyping)
    /\ WF_vars(TimerFire /\ UNCHANGED notTyping)
    /\ WF_vars(Subscribed /\ UNCHANGED notTyping)
    /\ WF_vars(SendTracked /\ UNCHANGED notTyping)
    /\ WF_vars(SendSettled /\ UNCHANGED notTyping)
    /\ WF_vars(UpdateDone /\ UNCHANGED notTyping)

InitTyping == TypingInit /\ CodecIdle /\ ChatIdle /\ CollegeIdle /\ NavbarIdle /\ InboxIdle
    /\ GroupIdle /\ IndicatorIdle /\ HandlerIdle /\ SwitchIdle

SpecTyping == InitTyping /\ [][TypingNext]_vars /\ TypingFairness

InitCollege == CollegeInit /\ CodecIdle /\ ChatIdle /\ TypingIdle /\ NavbarIdle /\ InboxIdle
    /\ GroupIdle /\ IndicatorIdle /\ HandlerIdle /\ SwitchIdle

SpecCollege == InitCollege /\ [][CollegeNext]_vars

InitNavbar ==
    NavbarInit /\ CodecIdle /\ ChatIdle /\ CollegeIdle /\ TypingIdle /\ InboxIdle
    /\ GroupIdle /\ IndicatorIdle /\ HandlerIdle /\ SwitchIdle

SpecNavbar == InitNavbar /\ [][NavbarNext]_vars

InitInbox ==
    InboxInit /\ CodecIdle /\ ChatIdle /\ CollegeIdle /\ TypingIdle /\ NavbarIdle
    /\ GroupIdle /\ IndicatorIdle /\ HandlerIdle /\ SwitchIdle

SpecInbox == InitInbox /\ [][InboxNext]_vars

InitGroup ==
    GroupInit /\ CodecIdle /\ ChatIdle /\ CollegeIdle /\ TypingIdle /\ NavbarIdle
    /\ InboxIdle /\ IndicatorIdle /\ HandlerIdle /\ SwitchIdle

SpecGroup == InitGroup /\ [][GroupNext]_vars

InitIndicator ==
    IndicatorInit /\ CodecIdle /\ ChatIdle /\ CollegeIdle /\ TypingIdle
    /\ NavbarIdle /\ InboxIdle /\ GroupIdle /\ HandlerIdle /\ SwitchIdle

SpecIndicator == InitIndicator /\ [][IndicatorNext]_vars

InitHandler ==
    HandlerInit /\ CodecIdle /\ ChatIdle /\ CollegeIdle /\ TypingIdle
    /\ NavbarIdle /\ InboxIdle /\ GroupIdle /\ IndicatorIdle /\ SwitchIdle

SpecHandler == InitHandler /\ [][HandlerNext]_vars

InitSwitch ==
    SwitchInit /\ CodecIdle /\ ChatIdle /\ CollegeIdle /\ TypingIdle
    /\ NavbarIdle /\ InboxIdle /\ GroupIdle /\ IndicatorIdle /\ HandlerIdle

SpecSwitch == InitSwitch /\ [][SwitchNext]_vars

\* C4: decoding an encoded reply yields the envelope and the body that were
\* encoded, for every envelope and body of the bounded alphabet.
C4_RoundTrip ==
    lastOp.op = "reply" =>
        rendered = [replyInfo |-> lastOp.replyInfo, mainContent |-> lastOp.mainContent]

\* A value with exactly the properties of a ReplyInfo, each of its type.
IsReplyInfo(v) ==
    /\ v.t = "obj"
    /\ Len(v.m) = 4
    /\ \E id \in 1..Len(v.m) : v.m[id].k = << "id" >> /\ v.m[id].v.t = "num"
    /\ \A name \in { << "content" >>, << "senderId" >>, << "senderName" >> } :
          \E i \in 1..Len(v.m) : v.m[i].k = name /\ v.m[i].v.t = "str"

IsSerializedReplyInfo(toks) ==
    LET parsed == JSONparse(toks) IN parsed.ok /\ IsReplyInfo(parsed.v)

\* C5: parseReply is total: content without the delimiters, and content whose
\* delimiters enclose something that is not a serialized reply envelope, both
\* decode to (null, the content unchanged).
C5_DecodeFallsBack ==
    lastOp.op # "none" =>
        LET match == REPLY_REGEX(content) IN
        (~match.matched \/ ~IsSerializedReplyInfo(match.g1)) =>
            rendered = [replyInfo |-> JNull, mainContent |-> content]

C1_NoDuplicateIds ==
    \A i, j \in DOMAIN messages : messages[i].id = messages[j].id => i = j

\* C2: an entry the list holds when the history fetch resolves (it can only
\* have come from a live INSERT), and that is still stored, is in the list
\* after the fetch has resolved.
C2_LiveInsertSurvivesFetch ==
    [][ (fetchPc = "select" /\ fetchPc' = "done") =>
            \A i \in DOMAIN messages :
                messages[i].id \in StoreIds => messages[i].id \in Ids(messages') ]_vars

\* C7: a message of the counterpart that is seen, in the store or in the
\* visible list, is never unseen afterwards, and a markSeen update applied
\* when the store holds no unseen message of the counterpart changes nothing.
C7_SeenOnlyAdvances ==
    [][ /\ \A r \in store, q \in store' :
              (r.id = q.id /\ r.sender = Peer /\ r.is_seen) => q.is_seen
        /\ \A i \in DOMAIN messages, j \in DOMAIN messages' :
              (messages[i].id = messages'[j].id /\ messages[i].sender = Peer
                 /\ messages[i].is_seen) => messages'[j].is_seen
        /\ (seenRequests' < seenRequests
               /\ \A r \in store : r.sender = Peer => r.is_seen) =>
              UNCHANGED << store, channel, messages >> ]_vars

C9_SeenOnlyWhenVisible ==
    [][ /\ seenRequests' > seenRequests => ~hidden'
        /\ (hidden /\ ~hidden') => seenRequests' > seenRequests ]_vars

C9_Witness ==
    /\ seenBy = "visible"
    /\ ~hidden
    /\ seenRequests > 0

\* Ascending order by (created_at, id).
KeyLeq(a, b) ==
    \/ created_at(a) < created_at(b)
    \/ created_at(a) = created_at(b) /\ a.id <= b.id

Sorted(list) == \A i, j \in DOMAIN list : i < j => KeyLeq(list[i], list[j])

\* C3: the visible list of a conversation is sorted ascending by
\* (created_at, id) in every reachable state, for every order in which
\* events arrive and asynchronous handlers complete.
C3_ListsSorted == Sorted(messages) /\ Sorted(cMessages)

C11_NoToastForOpenChat ==
    [][ (toast' # toast /\ toast' # NoToast) => toast'.from # openChat ]_vars

\* C12: for a private group and a user who is not a member, the group channel
\* is never subscribed and the message history is never fetched.
C12_NonMemberNeverSubscribed ==
    (groupType = "private" /\ ~memberIds) =>
        (gStatus # "SUBSCRIBED" /\ ~historyFetched)

\* C13: the inbox holds at most one entry per other user in every reachable
\* state.
C13_OneEntryPerPeer ==
    \A i, j \in DOMAIN conversations :
        conversations[i].profile = conversations[j].profile => i = j

\* C19: when the DELETE event of a message is handled, no entry of the inbox
\* shows that message as its preview afterwards.
C19_DeletedPreviewRemoved ==
    [][ (/\ listChannel # << >>
         /\ Head(listChannel).type = "DELETE"
         /\ listChannel' = Tail(listChannel)) =>
            \A i \in DOMAIN conversations' :
                conversations'[i].last_message.id # Head(listChannel).new.id ]_vars

\* The other members who are typing, and their names in key order, name by
\* name of each member.
OthersTyping == { u \in GroupMembers : presenceState[u] = "true" }

RECURSIVE NamesOf(_, _)
NamesOf(users, order) ==
    IF order = << >> THEN << >>
    ELSE LET here == { u \in users : profileName[u] = Head(order) }
         IN [i \in 1..Cardinality(here) |-> Head(order)]
            \o NamesOf(users, Tail(order))

\* C17: the indicator shows nothing when no other member is typing, the name
\* and "is typing..." for one, both names joined by "and" for two, and the
\* count and "people are typing..." for more than two.
C17_IndicatorText ==
    LET n == Cardinality(OthersTyping)
        names == NamesOf(OthersTyping, NameOrder)
    IN TypingIndicator(typingUsers) =
          IF n = 0 THEN << >>
          ELSE IF n = 1 THEN << names[1], "is typing..." >>
          ELSE IF n = 2 THEN << names[1], "and", names[2], "are typing..." >>
          ELSE << ToString(n), "people are typing..." >>

\* C18: while the subscription that carries a group's presence has failed, a
\* change of the group's messages is still delivered to the page.
C18_DeliveredWithoutPresence ==
    [][ (/\ gStatus = "CHANNEL_ERROR"
         /\ ~(groupType = "private" /\ ~memberIds)
         /\ gStore' # gStore) => gChannel' # gChannel ]_vars

\* C20: an inbound INSERT is checked by id against the visible list, so no
\* message is on the college community list twice.
C20_InsertCheckedById ==
    \A i, j \in DOMAIN cMessages : cMessages[i].id = cMessages[j].id => i = j

\* C15: once the conversation view is closed, no idle-typing timer of it is
\* pending.
C15_CloseCancelsTimer == ~viewOpen => typingTimeoutRef = 0

\* C14: after a send that failed, the composer still holds what was sent:
\* the same body, the same reply and the same attachment, for a retry.
C14_FailedSendRetryable ==
    [][ (typingSendPc = "insert" /\ typingSendPc' = "idle" /\ sendFailed') =>
            (/\ trim(newMessage') = sentContent
             /\ replyingTo' = replyingTo
             /\ fileToSend' = fileToSend) ]_vars

\* C16: a call of handleSendMessage with a draft that is empty after trim
\* and without a file requests nothing and changes no state of the view, in
\* a direct, a group and a college conversation.
C16_EmptySendRejected ==
    [][ (submits' # submits /\ trim(newMessage) = << >> /\ ~fileToSend) =>
            UNCHANGED << newMessage, typingSendPc, sentContent, presence,
                         publishedBy, typingTimeoutRef, timerLeft,
                         editingMessage, replyingTo, fileToSend, sendFailed,
                         typingChannelRef, joined >> ]_vars

\* C16 witness: a blank draft was typed and submitted, and nothing was sent.
C16_Witness ==
    /\ submits = 1 /\ keystrokes = 1 /\ newMessage = << " " >>
    /\ typingSendPc = "idle" /\ sentContent = << >>

\* C21: an UPDATE event replaces the entries with its id where they are and
\* a DELETE event removes them; every other entry stays, in the same order,
\* and an event for an id not on the list leaves the list as it is.
C21_UpdateDeleteInPlace ==
    [][ /\ hEvent'.type = "UPDATE" =>
            /\ Len(hList') = Len(hList)
            /\ \A i \in DOMAIN hList :
                  IF hList[i].id = hEvent'.new.id
                  THEN /\ hList'[i].id = hEvent'.new.id
                       /\ hList'[i].rev = hEvent'.new.rev
                  ELSE hList'[i] = hList[i]
            /\ (hEvent'.new.id \notin Ids(hList) => hList' = hList)
        /\ hEvent'.type = "DELETE" =>
            /\ hList' = SelectSeq(hList, LAMBDA e : e.id # hEvent'.old)
            /\ (hEvent'.old \notin Ids(hList) => hList' = hList) ]_vars

\* C21 witness: an UPDATE for the first of two entries was handled and the
\* second entry is still behind it.
C21_Witness ==
    /\ hEvent.type = "UPDATE" /\ Len(hList) = 2
    /\ hList[1].id = hEvent.new.id /\ hList[1].rev = hEvent.new.rev
    /\ hList[2].id # hEvent.new.id

\* C25: once a history fetch for the open recipient has resolved, the list
\* holds only messages of the conversation with that recipient.
C25_ListOfOpenRecipient ==
    historyResolved =>
        \A i \in DOMAIN directMessages : directMessages[i].other = recipientId

\* C22: when the INSERT event of a message is handled whose other user has
\* an entry, that entry is on top with the message as its preview, every
\* other entry is kept, and the list is sorted by preview, newest first.
C22_ExistingEntryMovesToTop ==
    [][ (/\ listChannel # << >>
         /\ Head(listChannel).type = "INSERT"
         /\ listChannel' = Tail(listChannel)
         /\ \E i \in DOMAIN conversations :
                conversations[i].profile = Head(listChannel).new.other) =>
            LET newMsg == Head(listChannel).new
            IN /\ conversations' # << >>
               /\ conversations'[1] = Conversation(newMsg.other, newMsg)
               /\ \A i \in DOMAIN conversations :
                     \E j \in DOMAIN conversations' :
                        conversations'[j].profile = conversations[i].profile
               /\ \A j \in 1..(Len(conversations') - 1) :
                     created_at(conversations'[j].last_message) >=
                        created_at(conversations'[j + 1].last_message)
       ]_vars

\* C23: a send or an edit that has set isSending eventually clears it,
\* whatever the outcome of its requests.
C23_SendingReturnsToReady == (typingSendPc # "idle") ~> (typingSendPc = "idle")

\* C23 witness: a send failed and the view is ready again.
C23_Witness == typingSendPc = "idle" /\ sendFailed /\ submits > 0

\* C24: while the presence channel of the view is subscribed, the value the
\* user last published is true exactly when an idle timer is pending.
C24_PublishedIffTimerPending ==
    joined => ((presence = "true") <=> (typingTimeoutRef # 0))

\* C26: when the INSERT event of a group message is handled whose id is not
\* on the list, the message is appended, whoever sent it.
C26_InsertAppended ==
    [][ (/\ gChannel # << >>
         /\ Head(gChannel).type = "INSERT"
         /\ gChannel' = Tail(gChannel)
         /\ Head(gChannel).new.id \notin Ids(gMessages)) =>
            gMessages' = Append(gMessages, Head(gChannel).new) ]_vars

\* C27: when no message event and no count fetch is in flight, the unread
\* counter is the number of stored messages to the user that are not seen.
C27_UnreadCountSettles ==
    (incomingMessages = << >> /\ messagesUpdate = 0 /\ countFetches = << >>) =>
        unreadMessageCount = Cardinality({ r \in inbound : ~r.is_seen })

\* What the markSeen loop still has to do: requests in flight, UPDATE events
\* not yet delivered, and rows of the counterpart not yet seen.
UpdatesQueued == Cardinality({ i \in DOMAIN channel : channel[i].type = "UPDATE" })

LoopMeasure ==
    seenRequests + 2 * UpdatesQueued
        + 3 * Cardinality({ r \in store : r.sender = Peer /\ ~r.is_seen })

\* C28: the loop markSeen request -> UPDATE events -> list change -> markSeen
\* request terminates: every step of the loop (the server applying a markSeen
\* request, the view receiving an UPDATE event) strictly lowers a natural
\* number, and a request applied when nothing is unseen changes no row and
\* emits no event.
C28_MarkSeenLoopTerminates ==
    [][ /\ (\/ seenRequests' < seenRequests
            \/ /\ channel # << >>
               /\ Head(channel).type = "UPDATE"
               /\ channel' = Tail(channel)) => LoopMeasure' < LoopMeasure
        /\ (seenRequests' < seenRequests
               /\ \A r \in store : r.sender = Peer => r.is_seen) =>
              (store' = store /\ channel' = channel) ]_vars

\* The loop has run to its end: rows were marked, the list changes that
\* followed issued requests, and nothing is in flight any more.
C28_Witness ==
    /\ lastMarked >= 1
    /\ seenBy = "list"
    /\ ~hidden
    /\ seenRequests = 0
    /\ channel = << >>
    /\ \E i \in DOMAIN messages : messages[i].sender = Peer /\ messages[i].is_seen
    /\ \A r \in store : r.sender = Peer => r.is_seen

\* C29: the typing set shown to the viewer has one entry per other member
\* whose presence has is_typing true: two typing members count as two even
\* with one name, and no typing member is left out for having the viewer's
\* name.
C29_TypingSetPerUser ==
    /\ Len(typingUsers) = Cardinality(OthersTyping)
    /\ \A u \in OthersTyping :
          \E i \in DOMAIN typingUsers : typingUsers[i] = profileName[u]

\* C30: in the college chat (a) a click on delete leaves no entry of that id
\* in the visible list, (b) when the refetch that reverts a failed delete has
\* completed the entry is in the list again, and (c) the DELETE broadcast of
\* a message of the viewer finds no entry to remove.
C30_OptimisticDelete ==
    [][ /\ \A id \in cDeleting' \ cDeleting : id \notin Ids(cMessages')
        /\ \A i \in DOMAIN cFetches :
              (cFetches' = RemoveAt(cFetches, i) /\ cFetches[i].revert # 0) =>
                  cFetches[i].revert \in Ids(cMessages')
        /\ (/\ cChannel # << >>
            /\ Head(cChannel).type = "DELETE"
            /\ cChannel' = Tail(cChannel)
            /\ \E j \in DOMAIN cMessages :
                  cMessages[j].id = Head(cChannel).id /\ cMessages[j].user_id = Me) =>
              cMessages' = cMessages ]_vars

====
